---- MODULE Spec2Model ----
(***************************************************************************)
(* State-machine model of astrbot_plugin_desktop_assistant.                *)
(*                                                                         *)
(*   Spec        the WebSocket session manager (src/ws_handler.py,         *)
(*               ClientManager): connection table and on-demand            *)
(*               screenshot request/response correlation.                  *)
(*   SpecConn    the connection table alone: connect, disconnect,          *)
(*               send_message and the desktop_state frames that fill the   *)
(*               cached client states.                                     *)
(*   SpecServer  the standalone WebSocket server (src/ws_server.py) and    *)
(*               the host-routed entry point handle_websocket.             *)
(*   SpecFiles   the screenshot store and its cleanup pass                 *)
(*               (src/services/desktop_monitor.py, ScreenshotManager).     *)
(*   SpecTriggers  the desktop monitor loop and the random trigger loop    *)
(*               of the proactive dialog service that reads its state.     *)
(*   SpecGreetings  the scheduled greeting loop of the proactive dialog    *)
(*               service (src/services/proactive_dialog.py).               *)
(*   SpecBridge  the cross-thread MessageBridge (src/main.py).             *)
(*   LiveBridge  SpecBridge with the fairness the event loop and the GUI   *)
(*               poll timer provide.                                       *)
(*   SpecBall    the floating ball's mouse handling and click timer        *)
(*               (src/gui/floating_ball/ball_window.py).                   *)
(*   SpecChat    the chat window's bubbles and the dispatch of output      *)
(*               messages (src/gui/chat_window, src/gui/app.py).           *)
(*   SpecSettings                                                          *)
(*               the settings window and its save                          *)
(*               (src/gui/settings_window.py).                             *)
(*   SpecRecorder                                                          *)
(*               the audio recorder and its capture threads                *)
(*               (src/services/audio_recorder.py).                         *)
(*   SpecServices                                                          *)
(*               the tasks of the monitor and dialog services with         *)
(*               start() and stop() taken step by step.                    *)
(*   SpecWindowChange                                                      *)
(*               the window-change strategy of the dialog service with     *)
(*               its cooldown.                                             *)
(*   SpecIdle    the idle loop of the dialog service.                      *)
(*   SpecStateFrames                                                       *)
(*               the host-routed handler's desktop_state frames taken      *)
(*               step by step, with the callback.                          *)
(*   SpecStreaming                                                         *)
(*               DesktopMessageEvent.send_streaming and the messages it    *)
(*               puts (src/main.py).                                       *)
(*   LiveStop    SpecBridge with the fairness of the two forwarding loops. *)
(*   SpecAdapter the local-capture adapter's input loop on the bridge,     *)
(*               with terminate() (src/main.py).                           *)
(*   LiveAdapter SpecAdapter with the fairness of the event loop.          *)
(*   SpecWindows the visibility of the floating ball and the chat window   *)
(*               under the tray, the menus and the screenshot actions.     *)
(*   LiveWindows SpecWindows with the fairness of the timers and of the    *)
(*               selector's callback.                                      *)
(*   SpecLaunch  concurrent start() calls on the standalone server.        *)
(***************************************************************************)
EXTENDS Integers, Sequences, FiniteSets, TLC

\* ------------------------------------------------------------------ bounds
\* number of request ids (uuid4 values) drawn in one behaviour
MaxCalls == 2
\* number of messages put on the bridge in each direction in one behaviour
MaxMsgs == 2
\* number of connection attempts the standalone server sees in one behaviour
MaxConns == 2
\* number of screenshot file names in the save directory
MaxFiles == 3
\* number of calendar days the wall clock passes through
MaxDays == 2
\* number of start() calls on the standalone server in one behaviour
MaxStartCalls == 3
\* number of calls of add_scheduled_greeting in one behaviour
MaxAdds == 1
\* number of messages the chat window displays in one behaviour
MaxShown == 4
\* number of capture threads the recorder starts in one behaviour
MaxStarts == 3
\* number of frames a recording buffers
MaxFrames == 2
\* number of chains the generators of the streaming replies yield in one
\* behaviour
MaxChains == 2

\* ------------------------------------------------------------- value sets
None == "None"
Sessions == {"s1", "s2"}
\* uuid4 request ids, modelled as 1, 2, ... in order of allocation; a call of
\* request_screenshot that registers a request is identified by its id
RequestIds == 1..MaxCalls
\* the tasks that call request_screenshot (the screenshot command and the
\* LLM tool), each with at most one call in progress; the manager does not
\* see which task a call belongs to
Callers == {"command", "tool"}
\* request_id "" of an immediate failure response; also a falsy/missing
\* request_id in a response frame (`if not request_id`)
EmptyId == 0
\* an id no request ever carries
UnknownId == MaxCalls + 1
Titles == {"w1", "w2"}
\* InputMessage / OutputMessage objects
Msgs == {"a", "b"}

\* the three error_message texts of request_screenshot (Chinese literals in
\* the source: "no connected desktop client", "client not connected: <id>",
\* "screenshot request timed out")
ErrNoClients == "no connected desktop client"
ErrNotConnected == "client not connected"
ErrTimeout == "screenshot request timed out"

VARIABLES
    active_connections,   \* ClientManager.active_connections: dict, as the
                          \* sequence of its keys in insertion order
    handlers,             \* sessions whose handle_websocket receive loop runs
    client_states,        \* ClientManager.client_states: session -> title
    pending,              \* ClientManager._pending_screenshot_requests
    futures,              \* ClientManager._screenshot_futures
    next_id,              \* next uuid4 to be drawn
    pc,                   \* position of the request_screenshot call of each id
    files,                \* screenshot files in the save directory
    sent,                 \* the websocket.send_json calls of the last step,
                          \* in order: the session and the frame type
    last_ret,             \* what handle_screenshot_response returned in the
                          \* last step: NoResult (None), or a response and
                          \* its success flag
    returned,             \* the request_screenshot call that ended in the last
                          \* step (EmptyId: one that drew no id) and its value
    input_queue,          \* MessageBridge._input_queue
    async_input_queue,    \* MessageBridge.async_input_queue
    async_output_queue,   \* MessageBridge.async_output_queue
    output_queue,         \* MessageBridge._output_queue
    running,              \* MessageBridge._running
    in_pc,                \* _bridge_input: position in the loop
    out_pc,               \* _bridge_output: position in the loop
    put_in,               \* history: messages passed to put_input
    got_in,               \* history: results of get_input
    put_out,              \* history: messages passed to put_output
    got_out,              \* history: non-absent results of get_output
    last_poll,            \* what get_output returned in the last step
    bc_pc,                \* ClientManager.broadcast: "idle" or "sending"
    bc_snapshot,          \* broadcast: list(self.active_connections.items())
    bc_sent,              \* broadcast: sessions of the snapshot sent to so far
    bc_failed,            \* broadcast: sessions whose send_json raised
    bc_clean,             \* history: no other operation changed the
                          \* connection table since the broadcast was called
    srv_running,          \* StandaloneWebSocketServer._running
    connections,          \* StandaloneWebSocketServer.connections:
                          \* session_id -> websocket (a connection id)
    conn_pc,              \* position of _handle_connection for each websocket
    conn_session,         \* session_id local of each _handle_connection
    next_conn,            \* next websocket the server will be handed
    cb_connect,           \* history: on_client_connect calls per websocket
    cb_disconnect,        \* history: on_client_disconnect calls per websocket
    skipped,              \* history: websockets on which a frame was skipped
    srv_bc,               \* StandaloneWebSocketServer.broadcast: the part of
                          \* list(self.connections.items()) not yet sent to
    arrival,              \* the connection attempt of the last step
    closed,               \* the close code a handler sent in the last step
    handled,              \* the frame a receive loop read in the last step
    srv_sent,             \* the send_to_client / broadcast send of the last
                          \* step and whether it succeeded
    fs_config,            \* ScreenshotManager.config: max_count and
                          \* max_age_hours
    fs_files,             \* the screenshot_*.png files of save_dir: file
                          \* name -> modification time, in seconds
    fs_now,               \* time.time(), in seconds
    fs_pass,              \* the last step's cleanup pass: the files it
                          \* found, the time it read, whether a call of
                          \* os.remove raised
    mon_monitoring,       \* DesktopMonitorService._is_monitoring
    mon_last_title,       \* DesktopMonitorService._last_window_title
    mon_last_state,       \* DesktopMonitorService._last_state
    mon_prev,             \* history: window title of the last successful
                          \* capture of the monitor loop
    mon_calls,            \* the callbacks the monitor loop invoked in the
                          \* last step, in order, each with its argument
    pd_running,           \* ProactiveDialogService._is_running
    pd_probability,       \* config.random_probability, in tenths
    pd_cycle,             \* the last step's random cycle: its draw and the
                          \* trigger it fired
    sg_greetings,         \* config.scheduled_greetings
    sg_now,               \* the wall clock datetime.now() reads
    sg_next_id,           \* history: the number of ScheduledGreeting objects
                          \* created so far, plus one
    sg_fired_on,          \* history: for each ScheduledGreeting object, the
                          \* calendar days on which a trigger was fired for it
    sg_tick,              \* the last step's scheduled check: the greetings
                          \* it fired, whether the trigger callback raised
    ball,                 \* FloatingBallWindow: _dragging, _drag_start_pos,
                          \* pos(), _pending_click, _click_timer
    ball_obs,             \* what the last step emitted, and history of the
                          \* pointer gesture in progress: the distance the
                          \* pointer travelled since the press, the single-
                          \* and double-click actions since the last release
                          \* that followed a press
    chat,                 \* ChatWindow: the widgets of _message_layout in
                          \* order, _streaming_message (the position of the
                          \* bubble, 0 for None), _streaming_text
    chat_obs,             \* the message the last step displayed; history:
                          \* the streaming chunks displayed since the last
                          \* end marker, and their concatenation
    settings,             \* SettingsWindow: config, and the values its
                          \* widgets hold
    settings_obs,         \* what the last step did: the dicts emitted with
                          \* settings_saved and passed to the callback,
                          \* whether a warning was shown, the dialog accepted
    recorder,             \* AudioRecorderService: _is_recording,
                          \* _recorded_data, _record_thread, _stop_event,
                          \* _record_start_time
    rec_threads,          \* the capture threads started so far: alive or
                          \* done
    rec_obs,              \* the call the last step made and its result;
                          \* the number of threads started, which is also
                          \* the reading of time.time()
    tasks,                \* the asyncio task of each loop of the two
                          \* services: where it is suspended
    svc,                  \* per service: the task handles that are set,
                          \* the tasks a stop() in progress has still to
                          \* cancel and await, and history: stop() has
                          \* returned and start() was not called since
    svc_obs,              \* what the last step did: the call or the task
                          \* that ran, what the task performed, whether an
                          \* exception was raised in it
    pd_clock,             \* the reading of datetime.now(), in seconds
    wc,                   \* ProactiveDialogService: the window-change
                          \* switch of its config,
                          \* _last_window_change_trigger, and history: the
                          \* timestamp of the last window trigger delivered
    wc_obs,               \* the last step's call of _on_window_change and
                          \* what it did
    idle,                 \* the idle loop of ProactiveDialogService: where
                          \* it is suspended, the now of its iteration,
                          \* _last_activity_time, and history
    idle_obs,             \* the last step's idle check and what it did
    on_desktop_state_update,  \* ClientManager.on_desktop_state_update: a
                          \* callback is registered
    ds_frame,             \* per session, the desktop_state frame its
                          \* handler is working on or has worked on last:
                          \* where the handler is, its local state, and
                          \* history: what it has done for the frame
    replies,              \* per streaming reply, the send_streaming call:
                          \* where it is, its final_text, and history: the
                          \* chains its generator has yielded
    st_out,               \* history: the messages put_output was given by
                          \* the streaming replies, in order
    adapter,              \* DesktopAssistantAdapter: _running, where
                          \* _process_input_messages is, and how far a call
                          \* of terminate() has come
    committed,            \* the events passed to commit_event, in order
    outcomes,             \* history: for each message the input loop has
                          \* taken, the message and what became of it
    win,                  \* the desktop client's windows: the tray's
                          \* _ball_visible and the text of its toggle item,
                          \* isVisible() of the floating ball and of the
                          \* chat window, where the screenshot action of
                          \* each window is, and history: a screenshot
                          \* action was started
    win_obs,              \* the screenshot action that ended in the last
                          \* step: its window and how it ended
    launch                \* StandaloneWebSocketServer under concurrent
                          \* start() calls: where each call is or what it
                          \* returned, _server (0 for None, else the call
                          \* whose serve() created it), the number of
                          \* listening sockets open, and history: a bind
                          \* failed because of another program

cmVars == <<active_connections, handlers, client_states, pending, futures,
            next_id, pc, files, sent, last_ret, returned>>
brVars == <<input_queue, async_input_queue, async_output_queue, output_queue,
            running, in_pc, out_pc, put_in, got_in, put_out, got_out,
            last_poll>>
bcVars == <<bc_pc, bc_snapshot, bc_sent, bc_failed, bc_clean>>
srvVars == <<srv_running, connections, conn_pc, conn_session, next_conn,
             cb_connect, cb_disconnect, skipped, srv_bc, arrival, closed,
             handled, srv_sent>>
fsVars == <<fs_config, fs_files, fs_now, fs_pass>>
monVars == <<mon_monitoring, mon_last_title, mon_last_state, mon_prev,
             mon_calls>>
pdVars == <<pd_running, pd_probability, pd_cycle>>
sgVars == <<sg_greetings, sg_now, sg_next_id, sg_fired_on, sg_tick>>
\* the back-end services
coreVars ==
    <<cmVars, brVars, bcVars, srvVars, fsVars, monVars, pdVars, sgVars>>
fbVars == <<ball, ball_obs>>
\* the desktop client
cwVars == <<chat, chat_obs>>
swVars == <<settings, settings_obs>>
arVars == <<recorder, rec_threads, rec_obs>>
guiVars == <<fbVars, cwVars, swVars, arVars>>
svcVars == <<tasks, svc, svc_obs>>
\* the groups the specifications of the back-end services leave alone
wcVars == <<pd_clock, wc, wc_obs>>
idVars == <<idle, idle_obs>>
dsVars == <<on_desktop_state_update, ds_frame>>
stVars == <<replies, st_out>>
adVars == <<adapter, committed, outcomes>>
\* the groups of the specifications of single parts
partVars == <<guiVars, svcVars, wcVars, idVars, dsVars, stVars>>
\* the groups of the specifications of flows across parts
winVars == <<win, win_obs>>
ssVars == <<launch>>
flowVars == <<adVars, winVars, ssVars>>
otherVars == <<partVars, flowVars>>
vars == <<coreVars, otherVars>>

\* ------------------------------------------------------------- pure helpers
Range(s) == {s[i] : i \in 1..Len(s)}

Remove(s, x) == SelectSeq(s, LAMBDA y : y # x)

\* dict.pop(key, None) / del dict[key] on a dict modelled as a function
Pop(d, k) == [x \in DOMAIN d \ {k} |-> d[x]]

\* dict[key] = value
Put(d, k, v) == [x \in DOMAIN d \cup {k} |-> IF x = k THEN v ELSE d[x]]

EmptyDict == [x \in {} |-> None]

\* the ScreenshotResponse dataclass
ScreenshotResponse(request_id, session_id, success, image_base64, image_path, error_message) ==
    [kind |-> "response", request_id |-> request_id, session_id |-> session_id,
     success |-> success, image_base64 |-> image_base64,
     image_path |-> image_path, error_message |-> error_message]

NoResult == [kind |-> "none"]
\* the step did not call handle_screenshot_response
NotCalled == [kind |-> "not_called"]
\* handle_screenshot_response returned ScreenshotResponse r
SomeResponse(r) == [kind |-> "response", success |-> r.success]
\* no request_screenshot call ended in the step
NotReturned == [call |-> EmptyId, value |-> NoResult]
\* the call ended by CancelledError propagating to its caller
Cancelled == [kind |-> "cancelled"]

\* asyncio.Future states
FuturePending == [state |-> "pending", result |-> NoResult]
FutureDone(r) == [state |-> "done", result |-> r]
FutureCancelled == [state |-> "cancelled", result |-> NoResult]
\* Future.done(): a result is set or the future is cancelled
done(f) == f.state # "pending"

\* ---------------------------------------------------------- ClientManager
\* ClientManager.disconnect on the key sequence of active_connections
disconnect(conns, session_id) ==
    IF session_id \in Range(conns) THEN Remove(conns, session_id) ELSE conns

\* ClientManager.connect: active_connections[session_id] = websocket (a key
\* already present keeps its place in the dict order)
connect(conns, session_id) ==
    IF session_id \in Range(conns) THEN conns ELSE Append(conns, session_id)

\* a websocket.send_json call: the session of the websocket, the frame type
Frame(session_id, type) == [to |-> session_id, type |-> type]

\* the step makes no websocket.send_json call
NoSend == sent' = <<>>

\* the step makes no handle_screenshot_response call
NoHandle == last_ret' = NotCalled

\* no request_screenshot call ends in the step
NoReturn == returned' = NotReturned

\* handle_websocket up to and including manager.connect
Connect(s) ==
    /\ s \notin handlers
    /\ handlers' = handlers \cup {s}
    /\ active_connections' = connect(active_connections, s)
    /\ UNCHANGED <<client_states, pending, futures, next_id, pc, files>>
    /\ NoSend /\ NoHandle /\ NoReturn

\* handle_websocket: receive_json raises (WebSocketDisconnect or any other
\* exception); the handler deregisters the session and ends
HandlerExit(s) ==
    /\ s \in handlers
    /\ handlers' = handlers \ {s}
    /\ active_connections' = disconnect(active_connections, s)
    /\ UNCHANGED <<client_states, pending, futures, next_id, pc, files>>
    /\ NoSend /\ NoHandle /\ NoReturn

\* handle_websocket, desktop_state frame: update_client_state replaces the
\* cached state of the session, then the handler sends desktop_state_ack on
\* its own websocket; ok is whether that send_json returns (TRUE) or raises
\* (FALSE: the handler deregisters the session and ends)
UpdateClientState(s, title, ok) ==
    /\ s \in handlers
    /\ client_states' = [client_states EXCEPT ![s] = title]
    /\ sent' = <<Frame(s, "desktop_state_ack")>>
    /\ handlers' = IF ok THEN handlers ELSE handlers \ {s}
    /\ active_connections' =
           IF ok THEN active_connections
           ELSE disconnect(active_connections, s)
    /\ UNCHANGED <<pending, futures, next_id, pc, files>>
    /\ NoHandle /\ NoReturn

\* send_message that on a failed send drops the oldest connection
SendMessage_dropfirst(s, ok) ==
    /\ IF s \notin Range(active_connections)
         THEN /\ sent' = <<>>
              /\ UNCHANGED active_connections
         ELSE /\ sent' = <<Frame(s, "message")>>
              /\ active_connections' =
                     IF ok THEN active_connections
                     ELSE Tail(active_connections)
    /\ UNCHANGED <<handlers, client_states, pending, futures, next_id, pc,
                   files>>
    /\ NoHandle /\ NoReturn

\* ClientManager.send_message called on its own; ok is whether
\* websocket.send_json returns (TRUE) or raises (FALSE)
SendMessage(s, ok) ==
    /\ IF s \notin Range(active_connections)
         THEN /\ sent' = <<>>
              /\ UNCHANGED active_connections
         ELSE /\ sent' = <<Frame(s, "message")>>
              /\ active_connections' =
                     IF ok THEN active_connections
                     ELSE disconnect(active_connections, s)
    /\ UNCHANGED <<handlers, client_states, pending, futures, next_id, pc,
                   files>>
    /\ NoHandle /\ NoReturn

\* ClientManager.broadcast is called: the snapshot of the connection table is
\* taken; with no connection the loop body never runs and the call returns
BroadcastStart ==
    /\ bc_pc = "idle"
    /\ bc_snapshot' = active_connections
    /\ bc_sent' = <<>>
    /\ bc_failed' = {}
    /\ bc_clean' = TRUE
    /\ bc_pc' = IF active_connections = <<>> THEN "idle" ELSE "sending"
    /\ UNCHANGED <<active_connections, handlers, client_states, pending,
                   futures, next_id, pc, files>>
    /\ NoSend /\ NoHandle /\ NoReturn

\* broadcast that gives up at the first failed send
BroadcastSend_break(ok) ==
    LET s == bc_snapshot[Len(bc_sent) + 1]
    IN  /\ bc_pc = "sending"
        /\ sent' = <<Frame(s, "broadcast")>>
        /\ bc_sent' = Append(bc_sent, s)
        /\ bc_failed' = IF ok THEN bc_failed ELSE bc_failed \cup {s}
        /\ active_connections' =
               IF ok THEN active_connections
               ELSE disconnect(active_connections, s)
        /\ bc_pc' = IF Len(bc_sent') = Len(bc_snapshot) \/ ~ok
                       THEN "idle" ELSE "sending"
        /\ UNCHANGED <<bc_snapshot, bc_clean, handlers, client_states,
                       pending, futures, next_id, pc, files>>
        /\ NoHandle /\ NoReturn

\* broadcast, one iteration of the loop over the snapshot: send_json on the
\* websocket of the next session, ok or raising (then disconnect of that
\* session_id); after the last iteration the call returns
BroadcastSend(ok) ==
    LET s == bc_snapshot[Len(bc_sent) + 1]
    IN  /\ bc_pc = "sending"
        /\ sent' = <<Frame(s, "broadcast")>>
        /\ bc_sent' = Append(bc_sent, s)
        /\ bc_failed' = IF ok THEN bc_failed ELSE bc_failed \cup {s}
        /\ active_connections' =
               IF ok THEN active_connections
               ELSE disconnect(active_connections, s)
        /\ bc_pc' = IF Len(bc_sent') = Len(bc_snapshot)
                       THEN "idle" ELSE "sending"
        /\ UNCHANGED <<bc_snapshot, bc_clean, handlers, client_states,
                       pending, futures, next_id, pc, files>>
        /\ NoHandle /\ NoReturn

\* a step of another operation while a broadcast may be suspended in a send:
\* the broadcast does not move
NoBroadcast ==
    /\ bc_clean' = (bc_clean /\ active_connections' = active_connections)
    /\ UNCHANGED <<bc_pc, bc_snapshot, bc_sent, bc_failed>>

\* The data of the screenshot_response frames an agent sends: a screenshot or
\* a failure
Payloads ==
    {[success |-> TRUE, image_base64 |-> "img", error_message |-> None],
     [success |-> FALSE, image_base64 |-> None, error_message |-> "err"]}

ResponseData(request_id, p) ==
    [request_id |-> request_id, success |-> p.success,
     image_base64 |-> p.image_base64, error_message |-> p.error_message]

\* file name screenshot_<request_id>_<ms>.png under the save directory
FilePath(request_id) == <<"screenshot", request_id>>

\* handle_screenshot_response decodes and writes the image
WantsSave(data) == data.success /\ data.image_base64 # None

\* handle_screenshot_response that resolves every unresolved future, whatever
\* request_id the frame carries
handle_screenshot_response_any(futs, fls, session_id, data, save_ok) ==
    LET request_id == data.request_id
        response == ScreenshotResponse(request_id, session_id, data.success,
                        data.image_base64, None, data.error_message)
    IN  IF request_id \notin DOMAIN futs
          THEN [futures |-> futs, files |-> fls, ret |-> NoResult]
        ELSE [futures |-> [x \in DOMAIN futs |->
                             IF ~done(futs[x]) THEN FutureDone(response)
                             ELSE futs[x]],
              files |-> fls, ret |-> response]

\* handle_screenshot_response without the future.done() test: set_result on
\* every delivery
handle_screenshot_response_overwrite(futs, fls, session_id, data, save_ok) ==
    LET request_id == data.request_id
        response == ScreenshotResponse(request_id, session_id, data.success,
                        data.image_base64, None, data.error_message)
    IN  IF request_id \notin DOMAIN futs
          THEN [futures |-> futs, files |-> fls, ret |-> NoResult]
        ELSE [futures |-> Put(futs, request_id, FutureDone(response)),
              files |-> fls, ret |-> response]

\* handle_screenshot_response without the lookup in _screenshot_futures: a
\* frame with an id that is not pending is handled like any other
handle_screenshot_response_nolookup(futs, fls, session_id, data, save_ok) ==
    LET request_id == data.request_id
        saving == WantsSave(data) /\ save_ok
        response == ScreenshotResponse(request_id, session_id, data.success,
                        data.image_base64,
                        IF saving THEN FilePath(request_id) ELSE None,
                        data.error_message)
    IN  IF request_id = EmptyId
          THEN [futures |-> futs, files |-> fls, ret |-> NoResult]
        ELSE [futures |-> IF request_id \in DOMAIN futs
                               /\ ~done(futs[request_id])
                            THEN Put(futs, request_id, FutureDone(response))
                            ELSE futs,
              files |-> IF saving THEN fls \cup {FilePath(request_id)}
                        ELSE fls,
              ret |-> response]

\* ClientManager.handle_screenshot_response as a function of the futures
\* table and the files written so far; save_ok is whether decoding and
\* writing the image succeeds.  Yields the new table, the new files and the
\* return value.
handle_screenshot_response(futs, fls, session_id, data, save_ok) ==
    LET request_id == data.request_id
        saving == WantsSave(data) /\ save_ok
        response == ScreenshotResponse(request_id, session_id, data.success,
                        data.image_base64,
                        IF saving THEN FilePath(request_id) ELSE None,
                        data.error_message)
    IN  IF request_id = EmptyId
          THEN [futures |-> futs, files |-> fls, ret |-> NoResult]
        ELSE IF request_id \notin DOMAIN futs
          THEN [futures |-> futs, files |-> fls, ret |-> NoResult]
        ELSE [futures |-> IF ~done(futs[request_id])
                            THEN Put(futs, request_id, FutureDone(response))
                            ELSE futs,
              files |-> IF saving THEN fls \cup {FilePath(request_id)}
                        ELSE fls,
              ret |-> response]

\* handle_websocket, screenshot_response frame (or command_result naming
\* screenshot) received on the connection of session s
Deliver(s, data, save_ok) ==
    /\ s \in handlers
    /\ LET h == handle_screenshot_response(futures, files, s, data, save_ok)
       IN  /\ futures' = h.futures
           /\ files' = h.files
           /\ last_ret' = IF h.ret = NoResult THEN NoResult
                           ELSE SomeResponse(h.ret)
    /\ UNCHANGED <<active_connections, handlers, client_states, pending,
                   next_id, pc>>
    /\ NoSend /\ NoReturn

\* request_screenshot ending with the futures entry left behind
Complete_leak(i, r) ==
    /\ returned' = [call |-> i, value |-> r]
    /\ pc' = [pc EXCEPT ![i] = "done"]
    /\ pending' = Pop(pending, i)
    /\ futures' = futures

\* request_screenshot, the try block left and the finally step run: the call
\* of request id i ends with r and its bookkeeping is removed
Complete(i, r) ==
    /\ returned' = [call |-> i, value |-> r]
    /\ pc' = [pc EXCEPT ![i] = "done"]
    /\ pending' = Pop(pending, i)
    /\ futures' = Pop(futures, i)

\* request_screenshot without the test that the named session is connected
RequestScreenshot_nocheck(arg) ==
    /\ Cardinality(DOMAIN pending) < Cardinality(Callers)
    /\ arg # None
    /\ next_id <= MaxCalls
    /\ next_id' = next_id + 1
    /\ pending' = Put(pending, next_id,
           [request_id |-> next_id, session_id |-> arg])
    /\ futures' = Put(futures, next_id, FuturePending)
    /\ sent' = IF arg \in Range(active_connections)
                 THEN <<Frame(arg, "command")>> ELSE <<>>
    /\ pc' = [pc EXCEPT ![next_id] = "sending"]
    /\ UNCHANGED <<active_connections, handlers, client_states, files>>
    /\ NoHandle /\ NoReturn

\* request_screenshot from its entry to its first suspension (the await of
\* websocket.send_json inside send_message) or to its immediate return;
\* arg is the session_id argument (None: first connected client)
RequestScreenshot(arg) ==
    /\ Cardinality(DOMAIN pending) < Cardinality(Callers)
    /\ IF arg = None /\ active_connections = <<>>
         THEN /\ returned' = [call |-> EmptyId, value |->
                    ScreenshotResponse(EmptyId, "", FALSE, None, None,
                                       ErrNoClients)]
              /\ sent' = <<>>
              /\ UNCHANGED <<pending, futures, next_id, pc>>
         ELSE LET session_id == IF arg = None THEN Head(active_connections)
                                ELSE arg
              IN  IF session_id \notin Range(active_connections)
                    THEN /\ returned' = [call |-> EmptyId, value |->
                               ScreenshotResponse(EmptyId, session_id, FALSE,
                                                  None, None, ErrNotConnected)]
                         /\ sent' = <<>>
                         /\ UNCHANGED <<pending, futures, next_id, pc>>
                    ELSE /\ next_id <= MaxCalls
                         /\ next_id' = next_id + 1
                         /\ pending' = Put(pending, next_id,
                                [request_id |-> next_id,
                                 session_id |-> session_id])
                         /\ futures' = Put(futures, next_id, FuturePending)
                         /\ sent' = <<Frame(session_id, "command")>>
                         /\ pc' = [pc EXCEPT ![next_id] = "sending"]
                         /\ NoReturn
    /\ UNCHANGED <<active_connections, handlers, client_states, files>>
    /\ NoHandle

\* request_screenshot resumes after send_message: send_json returned (ok) or
\* raised (send_message logs and deregisters the session); then wait_for
\* either finds the future already resolved and the call returns at once, or
\* suspends the call on the future
SendDone(i, ok) ==
    /\ pc[i] = "sending"
    /\ active_connections' =
           IF ok THEN active_connections
           ELSE disconnect(active_connections, pending[i].session_id)
    /\ IF done(futures[i])
         THEN Complete(i, futures[i].result)
         ELSE /\ pc' = [pc EXCEPT ![i] = "waiting"]
              /\ UNCHANGED <<pending, futures>>
              /\ NoReturn
    /\ UNCHANGED <<handlers, client_states, next_id, files>>
    /\ NoSend /\ NoHandle

\* asyncio.wait_for: the timeout elapses while the future is unresolved; the
\* future is cancelled and the call is scheduled to resume with TimeoutError
Timeout(i) ==
    /\ pc[i] = "waiting"
    /\ ~done(futures[i])
    /\ futures' = Put(futures, i, FutureCancelled)
    /\ pc' = [pc EXCEPT ![i] = "timedout"]
    /\ UNCHANGED <<active_connections, handlers, client_states, pending,
                   next_id, files>>
    /\ NoSend /\ NoHandle /\ NoReturn

\* the task running request_screenshot is cancelled while suspended; a future
\* it is waiting on is cancelled with it
Cancel(i) ==
    /\ pc[i] \in {"sending", "waiting"}
    /\ futures' = IF pc[i] = "waiting" /\ ~done(futures[i])
                    THEN Put(futures, i, FutureCancelled)
                    ELSE futures
    /\ pc' = [pc EXCEPT ![i] = "cancelling"]
    /\ UNCHANGED <<active_connections, handlers, client_states, pending,
                   next_id, files>>
    /\ NoSend /\ NoHandle /\ NoReturn

\* request_screenshot resumes from wait_for with the future's result
ResumeResponse(i) ==
    /\ pc[i] = "waiting"
    /\ futures[i].state = "done"
    /\ Complete(i, futures[i].result)
    /\ UNCHANGED <<active_connections, handlers, client_states, next_id,
                   files>>
    /\ NoSend /\ NoHandle

\* request_screenshot treating a timeout as proof of disconnection
ResumeTimeout_disconnect(i) ==
    /\ pc[i] = "timedout"
    /\ Complete(i, ScreenshotResponse(i, pending[i].session_id, FALSE, None,
                                      None, ErrTimeout))
    /\ active_connections' =
           disconnect(active_connections, pending[i].session_id)
    /\ UNCHANGED <<handlers, client_states, next_id, files>>
    /\ NoSend /\ NoHandle

\* request_screenshot resumes with asyncio.TimeoutError
ResumeTimeout(i) ==
    /\ pc[i] = "timedout"
    /\ Complete(i, ScreenshotResponse(i, pending[i].session_id, FALSE, None,
                                      None, ErrTimeout))
    /\ UNCHANGED <<active_connections, handlers, client_states, next_id,
                   files>>
    /\ NoSend /\ NoHandle

\* request_screenshot whose cancellation removes the pending request only
ResumeCancelled_half(i) ==
    /\ pc[i] = "cancelling"
    /\ returned' = [call |-> i, value |-> Cancelled]
    /\ pc' = [pc EXCEPT ![i] = "done"]
    /\ pending' = Pop(pending, i)
    /\ UNCHANGED <<active_connections, handlers, client_states, futures,
                   next_id, files>>
    /\ NoSend /\ NoHandle

\* request_screenshot resumes with CancelledError, which no except clause
\* catches: only the finally step runs
ResumeCancelled(i) ==
    /\ pc[i] = "cancelling"
    /\ Complete(i, Cancelled)
    /\ UNCHANGED <<active_connections, handlers, client_states, next_id,
                   files>>
    /\ NoSend /\ NoHandle

InitCM ==
    /\ active_connections = <<>>
    /\ handlers = {}
    /\ client_states = [s \in Sessions |-> None]
    /\ pending = EmptyDict
    /\ futures = EmptyDict
    /\ next_id = 1
    /\ pc = [i \in RequestIds |-> "unissued"]
    /\ files = {}
    /\ sent = <<>>
    /\ last_ret = NotCalled
    /\ returned = NotReturned
    /\ bc_pc = "idle"
    /\ bc_snapshot = <<>>
    /\ bc_sent = <<>>
    /\ bc_failed = {}
    /\ bc_clean = TRUE

\* ----------------------------------------------------------- MessageBridge
\* the step makes no get_output call
NotPolled == "not_polled"
NoPoll == last_poll' = NotPolled

\* IsPrefix(s, t): s is an initial segment of t
IsPrefix(s, t) == Len(s) <= Len(t) /\ SubSeq(t, 1, Len(s)) = s

\* MessageBridge.put_input, called on the GUI thread
PutInput(m) ==
    /\ Len(put_in) < MaxMsgs
    /\ input_queue' = Append(input_queue, m)
    /\ put_in' = Append(put_in, m)
    /\ UNCHANGED <<async_input_queue, async_output_queue, output_queue,
                   running, in_pc, out_pc, got_in, put_out, got_out>>
    /\ NoPoll

\* _bridge_input taking the newest message of the thread-safe queue first
BridgeInputForward_lifo ==
    /\ in_pc = "top"
    /\ running
    /\ input_queue # <<>>
    /\ input_queue' = SubSeq(input_queue, 1, Len(input_queue) - 1)
    /\ async_input_queue' =
           Append(async_input_queue, input_queue[Len(input_queue)])
    /\ UNCHANGED <<async_output_queue, output_queue, running, in_pc, out_pc,
                   put_in, got_in, put_out, got_out>>
    /\ NoPoll

\* _bridge_input, one iteration with a message: get_nowait takes the head of
\* the thread-safe queue and put appends it to the asyncio queue (unbounded:
\* the await does not suspend)
BridgeInputForward ==
    /\ in_pc = "top"
    /\ running
    /\ input_queue # <<>>
    /\ input_queue' = Tail(input_queue)
    /\ async_input_queue' = Append(async_input_queue, Head(input_queue))
    /\ UNCHANGED <<async_output_queue, output_queue, running, in_pc, out_pc,
                   put_in, got_in, put_out, got_out>>
    /\ NoPoll

\* _bridge_input, one iteration without: queue.Empty, sleep 10 ms
BridgeInputSleep ==
    /\ in_pc = "top"
    /\ running
    /\ input_queue = <<>>
    /\ in_pc' = "sleep"
    /\ UNCHANGED <<input_queue, async_input_queue, async_output_queue,
                   output_queue, running, out_pc, put_in, got_in, put_out,
                   got_out>>
    /\ NoPoll

\* _bridge_input: the sleep ends, back to the loop test
BridgeInputWake ==
    /\ in_pc = "sleep"
    /\ in_pc' = "top"
    /\ UNCHANGED <<input_queue, async_input_queue, async_output_queue,
                   output_queue, running, out_pc, put_in, got_in, put_out,
                   got_out>>
    /\ NoPoll

\* _bridge_input: the loop test finds _running cleared
BridgeInputExit ==
    /\ in_pc = "top"
    /\ ~running
    /\ in_pc' = "exited"
    /\ UNCHANGED <<input_queue, async_input_queue, async_output_queue,
                   output_queue, running, out_pc, put_in, got_in, put_out,
                   got_out>>
    /\ NoPoll

\* MessageBridge.get_input: asyncio.Queue.get, which waits while the queue is
\* empty
GetInput ==
    /\ async_input_queue # <<>>
    /\ async_input_queue' = Tail(async_input_queue)
    /\ got_in' = Append(got_in, Head(async_input_queue))
    /\ UNCHANGED <<input_queue, async_output_queue, output_queue, running,
                   in_pc, out_pc, put_in, put_out, got_out>>
    /\ NoPoll

\* MessageBridge.put_output, called on the event loop
PutOutput(m) ==
    /\ Len(put_out) < MaxMsgs
    /\ async_output_queue' = Append(async_output_queue, m)
    /\ put_out' = Append(put_out, m)
    /\ UNCHANGED <<input_queue, async_input_queue, output_queue, running,
                   in_pc, out_pc, put_in, got_in, got_out>>
    /\ NoPoll

\* _bridge_output: msg obtained from the asyncio queue is put on the
\* thread-safe queue
forward_output ==
    /\ async_output_queue' = Tail(async_output_queue)
    /\ output_queue' = Append(output_queue, Head(async_output_queue))

\* _bridge_output, loop test passed: wait_for(get(), 0.1) returns at once
\* when the queue holds a message, and suspends otherwise
BridgeOutputGet ==
    /\ out_pc = "top"
    /\ running
    /\ IF async_output_queue # <<>>
         THEN forward_output /\ UNCHANGED out_pc
         ELSE /\ out_pc' = "waiting"
              /\ UNCHANGED <<async_output_queue, output_queue>>
    /\ UNCHANGED <<input_queue, async_input_queue, running, in_pc, put_in,
                   got_in, put_out, got_out>>
    /\ NoPoll

\* _bridge_output: a message arrives within the 100 ms
BridgeOutputWake ==
    /\ out_pc = "waiting"
    /\ async_output_queue # <<>>
    /\ forward_output
    /\ out_pc' = "top"
    /\ UNCHANGED <<input_queue, async_input_queue, running, in_pc, put_in,
                   got_in, put_out, got_out>>
    /\ NoPoll

\* _bridge_output whose timed-out get() has already taken a message, which
\* is lost with the TimeoutError
BridgeOutputTimeout_drop ==
    /\ out_pc = "waiting"
    /\ out_pc' = "top"
    /\ async_output_queue' =
           IF async_output_queue = <<>> THEN <<>>
           ELSE Tail(async_output_queue)
    /\ UNCHANGED <<input_queue, async_input_queue, output_queue, running,
                   in_pc, put_in, got_in, put_out, got_out>>
    /\ NoPoll

\* _bridge_output leaving its loop on TimeoutError instead of retrying
BridgeOutputTimeout_break ==
    /\ out_pc = "waiting"
    /\ out_pc' = "exited"
    /\ UNCHANGED <<input_queue, async_input_queue, async_output_queue,
                   output_queue, running, in_pc, put_in, got_in, put_out,
                   got_out>>
    /\ NoPoll

\* _bridge_output: the 100 ms elapse; the cancelled get() takes nothing from
\* the queue; TimeoutError, continue
BridgeOutputTimeout ==
    /\ out_pc = "waiting"
    /\ out_pc' = "top"
    /\ UNCHANGED <<input_queue, async_input_queue, async_output_queue,
                   output_queue, running, in_pc, put_in, got_in, put_out,
                   got_out>>
    /\ NoPoll

\* _bridge_output testing _running only once the asyncio queue is drained
BridgeOutputExit_drained ==
    /\ out_pc = "top"
    /\ ~running
    /\ async_output_queue = <<>>
    /\ out_pc' = "exited"
    /\ UNCHANGED <<input_queue, async_input_queue, async_output_queue,
                   output_queue, running, in_pc, put_in, got_in, put_out,
                   got_out>>
    /\ NoPoll

\* _bridge_output: the loop test finds _running cleared
BridgeOutputExit ==
    /\ out_pc = "top"
    /\ ~running
    /\ out_pc' = "exited"
    /\ UNCHANGED <<input_queue, async_input_queue, async_output_queue,
                   output_queue, running, in_pc, put_in, got_in, put_out,
                   got_out>>
    /\ NoPoll

\* MessageBridge.get_output, called by the GUI poll timer: get_nowait, None on
\* queue.Empty
GetOutput ==
    /\ IF output_queue = <<>>
         THEN /\ last_poll' = None
              /\ UNCHANGED <<output_queue, got_out>>
         ELSE /\ last_poll' = Head(output_queue)
              /\ output_queue' = Tail(output_queue)
              /\ got_out' = Append(got_out, Head(output_queue))
    /\ UNCHANGED <<input_queue, async_input_queue, async_output_queue,
                   running, in_pc, out_pc, put_in, got_in, put_out>>

\* MessageBridge.stop
Stop ==
    /\ running
    /\ running' = FALSE
    /\ UNCHANGED <<input_queue, async_input_queue, async_output_queue,
                   output_queue, in_pc, out_pc, put_in, got_in, put_out,
                   got_out>>
    /\ NoPoll

\* the bridge after __init__ and setup_async_queues, which the adapter calls
\* before it starts the GUI thread and the coroutines that use the bridge
InitBridge ==
    /\ input_queue = <<>>
    /\ async_input_queue = <<>>
    /\ async_output_queue = <<>>
    /\ output_queue = <<>>
    /\ running = TRUE
    /\ in_pc = "top"
    /\ out_pc = "top"
    /\ put_in = <<>>
    /\ got_in = <<>>
    /\ put_out = <<>>
    /\ got_out = <<>>
    /\ last_poll = NotPolled

\* ------------------------------------------------ StandaloneWebSocketServer
ConnIds == 1..MaxConns
\* request paths: the two documented ones, the empty path and any other
Paths == {"/ws/client", "/", "", "/other"}
valid_paths == {"/ws/client", "/", ""}
\* raw query parameter values: absent, blank, or a value
RawSessions == {None, ""} \cup Sessions
RawTokens == {None, "", "tok"}
\* the frames a client can send: text that is not JSON, JSON that is not an
\* object (data.get raises), a heartbeat, and any other message
Frames == {"bad_json", "non_object", "heartbeat", "data"}
PolicyViolation == 1008

\* Python truthiness of an Optional[str]
Falsy(v) == v = None \/ v = ""
\* parse_qs(query)[name][0] with default None: parse_qs drops blank values
parse_qs(v) == IF v = "" THEN None ELSE v

NoArrival == [server |-> "none"]
NoClose == 0
NoFrame == [conn |-> 0]
NoServerSend == [op |-> "none"]
\* labels of a step that is no connection attempt, reads no frame, makes no
\* server send
NoAttempt == arrival' = NoArrival /\ closed' = NoClose
NoRead == handled' = NoFrame
NoSrvSend == srv_sent' = NoServerSend

\* start(): serve() succeeds (ok) or raises
ServerStart(ok) ==
    /\ ~srv_running
    /\ srv_running' = ok
    /\ UNCHANGED <<connections, conn_pc, conn_session, next_conn, cb_connect,
                   cb_disconnect, skipped, srv_bc>>
    /\ NoAttempt /\ NoRead /\ NoSrvSend

\* _handle_connection that does not test the query parameters
HandleConnection_noparams(path, raw_session, raw_token) ==
    LET c == next_conn
        session_id == parse_qs(raw_session)
    IN  /\ srv_running
        /\ next_conn <= MaxConns
        /\ next_conn' = next_conn + 1
        /\ arrival' = [server |-> "standalone", path |-> path,
                       session_id |-> raw_session, token |-> raw_token]
        /\ IF path \notin valid_paths
             THEN /\ closed' = PolicyViolation
                  /\ conn_pc' = [conn_pc EXCEPT ![c] = "rejected"]
                  /\ UNCHANGED <<connections, conn_session, cb_connect>>
             ELSE /\ closed' = NoClose
                  /\ connections' = Put(connections, session_id, c)
                  /\ conn_session' = [conn_session EXCEPT ![c] = session_id]
                  /\ cb_connect' = [cb_connect EXCEPT ![c] = @ + 1]
                  /\ conn_pc' = [conn_pc EXCEPT ![c] = "loop"]
        /\ UNCHANGED <<srv_running, cb_disconnect, skipped, srv_bc>>
        /\ NoRead /\ NoSrvSend

\* _handle_connection from its entry to the receive loop: the path and the
\* query parameters are checked, a bad attempt is closed with 1008, a good
\* one is entered in the table and on_client_connect is called (an exception
\* of the callback is logged)
HandleConnection(path, raw_session, raw_token) ==
    LET c == next_conn
        session_id == parse_qs(raw_session)
        token == parse_qs(raw_token)
    IN  /\ srv_running
        /\ next_conn <= MaxConns
        /\ next_conn' = next_conn + 1
        /\ arrival' = [server |-> "standalone", path |-> path,
                       session_id |-> raw_session, token |-> raw_token]
        /\ IF path \notin valid_paths \/ Falsy(session_id) \/ Falsy(token)
             THEN /\ closed' = PolicyViolation
                  /\ conn_pc' = [conn_pc EXCEPT ![c] = "rejected"]
                  /\ UNCHANGED <<connections, conn_session, cb_connect>>
             ELSE /\ closed' = NoClose
                  /\ connections' = Put(connections, session_id, c)
                  /\ conn_session' = [conn_session EXCEPT ![c] = session_id]
                  /\ cb_connect' = [cb_connect EXCEPT ![c] = @ + 1]
                  /\ conn_pc' = [conn_pc EXCEPT ![c] = "loop"]
        /\ UNCHANGED <<srv_running, cb_disconnect, skipped, srv_bc>>
        /\ NoRead /\ NoSrvSend

\* a receive loop that treats a frame it cannot handle as the end of the
\* connection
ReceiveFrame_fatal(c, frame) ==
    /\ conn_pc[c] = "loop"
    /\ handled' = [conn |-> c, frame |-> frame,
                   how |-> CASE frame = "heartbeat" -> "ack"
                             [] frame = "data" -> "callback"
                             [] OTHER -> "skipped"]
    /\ skipped' = IF frame \in {"bad_json", "non_object"}
                    THEN skipped \cup {c} ELSE skipped
    /\ conn_pc' = IF frame \in {"bad_json", "non_object"}
                    THEN [conn_pc EXCEPT ![c] = "closed"] ELSE conn_pc
    /\ UNCHANGED <<srv_running, connections, conn_session, next_conn,
                   cb_connect, cb_disconnect, srv_bc>>
    /\ NoAttempt /\ NoSrvSend

\* the receive loop of websocket c reads one frame: json.loads, then
\* _handle_message (heartbeat: heartbeat_ack is sent, a failed send only
\* returns False; otherwise on_message is called, its exception logged);
\* JSONDecodeError and any other exception are logged and the loop goes on
ReceiveFrame(c, frame) ==
    /\ conn_pc[c] = "loop"
    /\ handled' = [conn |-> c, frame |-> frame,
                   how |-> CASE frame = "heartbeat" -> "ack"
                             [] frame = "data" -> "callback"
                             [] OTHER -> "skipped"]
    /\ skipped' = IF frame \in {"bad_json", "non_object"}
                    THEN skipped \cup {c} ELSE skipped
    /\ UNCHANGED <<srv_running, connections, conn_pc, conn_session,
                   next_conn, cb_connect, cb_disconnect, srv_bc>>
    /\ NoAttempt /\ NoSrvSend

\* _handle_connection whose cleanup calls on_client_disconnect only when the
\* session is still in the table
HandlerEnd_iftable(c) ==
    /\ conn_pc[c] \in {"loop", "closed"}
    /\ conn_pc' = [conn_pc EXCEPT ![c] = "ended"]
    /\ connections' = Pop(connections, conn_session[c])
    /\ cb_disconnect' =
          IF conn_session[c] \in DOMAIN connections
            THEN [cb_disconnect EXCEPT ![c] = @ + 1]
            ELSE cb_disconnect
    /\ UNCHANGED <<srv_running, conn_session, next_conn, cb_connect, skipped,
                   srv_bc>>
    /\ NoAttempt /\ NoRead /\ NoSrvSend

\* the receive loop of websocket c ends (the iteration finishes on a clean
\* close, ConnectionClosed, or another exception) and the finally block
\* runs: connections.pop(session_id, None), then on_client_disconnect (an
\* exception of the callback is logged)
HandlerEnd(c) ==
    /\ conn_pc[c] \in {"loop", "closed"}
    /\ conn_pc' = [conn_pc EXCEPT ![c] = "ended"]
    /\ connections' = Pop(connections, conn_session[c])
    /\ cb_disconnect' = [cb_disconnect EXCEPT ![c] = @ + 1]
    /\ UNCHANGED <<srv_running, conn_session, next_conn, cb_connect, skipped,
                   srv_bc>>
    /\ NoAttempt /\ NoRead /\ NoSrvSend

\* send_to_client: False when the session has no websocket in the table,
\* else the result of _send_json, which returns False when the send raises
SendToClient(s, ok) ==
    /\ srv_sent' = [op |-> "send_to_client", session |-> s,
                    conn |-> IF s \in DOMAIN connections THEN connections[s]
                             ELSE 0,
                    ok |-> s \in DOMAIN connections /\ ok]
    /\ UNCHANGED <<srv_running, connections, conn_pc, conn_session,
                   next_conn, cb_connect, cb_disconnect, skipped, srv_bc>>
    /\ NoAttempt /\ NoRead

\* list(self.connections.items()): the (session_id, websocket) pairs
Items(d) ==
    LET RECURSIVE items(_)
        items(S) == IF S = {} THEN <<>>
                    ELSE LET s == CHOOSE x \in S : TRUE
                         IN  <<[session |-> s, conn |-> d[s]]>>
                                 \o items(S \ {s})
    IN  items(DOMAIN d)

\* broadcast is called: the snapshot of the table is taken
ServerBroadcastStart ==
    /\ srv_bc = <<>>
    /\ connections # EmptyDict
    /\ srv_bc' = Items(connections)
    /\ UNCHANGED <<srv_running, connections, conn_pc, conn_session,
                   next_conn, cb_connect, cb_disconnect, skipped>>
    /\ NoAttempt /\ NoRead /\ NoSrvSend

\* broadcast, one iteration: _send_json on the websocket of the snapshot;
\* when it returns False the session_id is popped from the table
ServerBroadcastSend(ok) ==
    /\ srv_bc # <<>>
    /\ srv_sent' = [op |-> "broadcast", session |-> Head(srv_bc).session,
                    conn |-> Head(srv_bc).conn, ok |-> ok]
    /\ connections' = IF ok THEN connections
                      ELSE Pop(connections, Head(srv_bc).session)
    /\ srv_bc' = Tail(srv_bc)
    /\ UNCHANGED <<srv_running, conn_pc, conn_session, next_conn,
                   cb_connect, cb_disconnect, skipped>>
    /\ NoAttempt /\ NoRead

\* stop(): nothing when not running; else _running is cleared, every
\* websocket of the table is closed with 1001, the table is cleared, and
\* closing the server closes every websocket still open; the handlers of
\* the closed websockets end in their own steps
ServerStop ==
    /\ IF ~srv_running
         THEN UNCHANGED <<srv_running, connections, conn_pc>>
         ELSE /\ srv_running' = FALSE
              /\ connections' = EmptyDict
              /\ conn_pc' = [c \in ConnIds |->
                               IF conn_pc[c] = "loop" THEN "closed"
                               ELSE conn_pc[c]]
    /\ UNCHANGED <<conn_session, next_conn, cb_connect, cb_disconnect,
                   skipped, srv_bc>>
    /\ NoAttempt /\ NoRead /\ NoSrvSend

\* WebSocketHandler.handle_websocket from its entry: without token or
\* session_id the websocket is closed with 1008, else manager.connect
HandleWebsocket(raw_session, raw_token) ==
    /\ arrival' = [server |-> "host", path |-> "/ws/client",
                   session_id |-> raw_session, token |-> raw_token]
    /\ IF Falsy(raw_token) \/ Falsy(raw_session)
         THEN /\ closed' = PolicyViolation
              /\ UNCHANGED cmVars
         ELSE /\ closed' = NoClose
              /\ Connect(raw_session)
    /\ UNCHANGED <<srv_running, connections, conn_pc, conn_session,
                   next_conn, cb_connect, cb_disconnect, skipped, srv_bc>>
    /\ NoRead /\ NoSrvSend

\* the server after __init__
InitServer ==
    /\ srv_running = FALSE
    /\ connections = EmptyDict
    /\ conn_pc = [c \in ConnIds |-> "new"]
    /\ conn_session = [c \in ConnIds |-> None]
    /\ next_conn = 1
    /\ cb_connect = [c \in ConnIds |-> 0]
    /\ cb_disconnect = [c \in ConnIds |-> 0]
    /\ skipped = {}
    /\ srv_bc = <<>>
    /\ arrival = NoArrival
    /\ closed = NoClose
    /\ handled = NoFrame
    /\ srv_sent = NoServerSend

\* --------------------------------------------------------- ScreenshotManager
FileNames == 1..MaxFiles
\* values of time.time() and of file modification times, in seconds, around
\* the one-hour and two-hour age limits
Times == {0, 1, 3600, 3601, 7201}
\* values of max_age_hours
AgeHours == {0, 1, 2}
SecondsPerHour == 3600

\* the sequences over S without repetition that list every element of S
Permutations_of(S) ==
    {q \in [1..Cardinality(S) -> S] : \A x \in S : \E i \in DOMAIN q : q[i] = x}

\* get_screenshot_files: the files sorted by modification time, newest
\* first; sorted() is stable, so files with equal times keep the order glob
\* listed them in, which is any order
get_screenshot_files(fm) ==
    {q \in Permutations_of(DOMAIN fm) :
        \A i, j \in DOMAIN q : i < j => fm[q[i]] >= fm[q[j]]}

\* Python slices files[k:] and files[:k], for k >= 0
SliceFrom(q, k) == SubSeq(q, k + 1, Len(q))
SliceTo(q, k) == SubSeq(q, 1, IF k < Len(q) THEN k ELSE Len(q))

\* cleanup_old_screenshots with the list sorted oldest first
cleanup_old_screenshots_oldestfirst(fm, order, current_time, config, fail) ==
    LET listing == [i \in DOMAIN order |-> order[Len(order) + 1 - i]]
        max_age_seconds == config.max_age_hours * SecondsPerHour
        by_count == IF Len(listing) > config.max_count
                      THEN Range(SliceFrom(listing, config.max_count))
                      ELSE {}
        by_age == {f \in Range(SliceTo(listing, config.max_count)) :
                      current_time - fm[f] > max_age_seconds}
        removed == (by_count \cup by_age) \ fail
    IN  [f \in DOMAIN fm \ removed |-> fm[f]]

\* cleanup_old_screenshots without the age rule
cleanup_old_screenshots_countonly(fm, order, current_time, config, fail) ==
    LET listing == order
        by_count == IF Len(listing) > config.max_count
                      THEN Range(SliceFrom(listing, config.max_count))
                      ELSE {}
        removed == by_count \ fail
    IN  [f \in DOMAIN fm \ removed |-> fm[f]]

\* cleanup_old_screenshots: fm the directory, order the result of
\* get_screenshot_files, fail the files on which os.remove raises OSError
\* (logged, the file stays); the result is the directory after the pass
cleanup_old_screenshots(fm, order, current_time, config, fail) ==
    LET listing == order
        max_age_seconds == config.max_age_hours * SecondsPerHour
        by_count == IF Len(listing) > config.max_count
                      THEN Range(SliceFrom(listing, config.max_count))
                      ELSE {}
        by_age == {f \in Range(SliceTo(listing, config.max_count)) :
                      current_time - fm[f] > max_age_seconds}
        removed == (by_count \cup by_age) \ fail
    IN  [f \in DOMAIN fm \ removed |-> fm[f]]

NoPass == [ran |-> FALSE]
\* no ScreenshotManager constructed yet
NoConfig == [made |-> FALSE]

\* ScreenshotManager.__init__(config)
NewScreenshotManager(max_count, max_age_hours) ==
    /\ ~fs_config.made
    /\ fs_config' = [made |-> TRUE, max_count |-> max_count,
                     max_age_hours |-> max_age_hours]
    /\ fs_pass' = NoPass
    /\ UNCHANGED <<fs_files, fs_now>>

\* a screenshot is written to save_dir under a new name
SaveScreenshot(f) ==
    /\ f \notin DOMAIN fs_files
    /\ fs_files' = Put(fs_files, f, fs_now)
    /\ fs_pass' = NoPass
    /\ UNCHANGED <<fs_config, fs_now>>

\* time passes
Tick(now) ==
    /\ now > fs_now
    /\ fs_now' = now
    /\ fs_pass' = NoPass
    /\ UNCHANGED <<fs_config, fs_files>>

\* one call of cleanup_old_screenshots (it has no await: one step)
Cleanup(order, fail) ==
    /\ fs_config.made
    /\ order \in get_screenshot_files(fs_files)
    /\ fs_files' = cleanup_old_screenshots(fs_files, order, fs_now,
                                           fs_config, fail)
    /\ fs_pass' = [ran |-> TRUE, found |-> fs_files, time |-> fs_now,
                   errors |-> fs_files' # cleanup_old_screenshots(
                                 fs_files, order, fs_now, fs_config, {})]
    /\ UNCHANGED <<fs_config, fs_now>>

\* the save directory before the manager is constructed
InitFiles ==
    /\ fs_config = NoConfig
    /\ fs_files = EmptyDict
    /\ fs_now = 0
    /\ fs_pass = NoPass

\* ----------------------------------------------------- DesktopMonitorService
\* window titles _get_active_window_info can report; None when the platform
\* call fails
WindowTitles == {None, "A", "B"}
\* the results of _capture_state: None (no screenshot, or an exception), or
\* a DesktopState with the window title found
Captures ==
    {[ok |-> FALSE]} \cup {[ok |-> TRUE, title |-> w] : w \in WindowTitles}

DesktopState(window_title, previous_window, window_changed) ==
    [window_title |-> window_title, previous_window |-> previous_window,
     window_changed |-> window_changed]
NoState == [window_title |-> "no_state"]
NoCapture == "no_capture"

\* DesktopMonitorService.start
MonitorStart ==
    /\ ~mon_monitoring
    /\ mon_monitoring' = TRUE
    /\ mon_calls' = <<>>
    /\ UNCHANGED <<mon_last_title, mon_last_state, mon_prev>>

\* DesktopMonitorService.stop
MonitorStop ==
    /\ mon_monitoring
    /\ mon_monitoring' = FALSE
    /\ mon_calls' = <<>>
    /\ UNCHANGED <<mon_last_title, mon_last_state, mon_prev>>

\* _monitor_loop that does not record the title it has seen
MonitorIteration_stale(capture) ==
    /\ mon_monitoring
    /\ IF ~capture.ok
         THEN /\ mon_calls' = <<>>
              /\ UNCHANGED <<mon_last_title, mon_last_state, mon_prev>>
         ELSE LET changed == mon_last_title # capture.title
                  state == DesktopState(capture.title, mon_last_title,
                                        changed)
              IN  /\ mon_last_title' = mon_last_title
                  /\ mon_calls' =
                        (IF changed
                           THEN <<[callback |-> "on_window_change",
                                   state |-> state]>>
                           ELSE <<>>)
                        \o <<[callback |-> "on_state_change",
                              state |-> state]>>
                  /\ mon_last_state' = state
                  /\ mon_prev' = capture.title
    /\ UNCHANGED mon_monitoring

\* one iteration of _monitor_loop: _capture_state builds the state with
\* previous_window = _last_window_title and window_changed = False; when the
\* title differs from _last_window_title the state is marked changed, the
\* title is recorded and on_window_change is called; then on_state_change is
\* called; both through _safe_callback, which logs their exceptions (the
\* plugin registers both callbacks)
MonitorIteration(capture) ==
    /\ mon_monitoring
    /\ IF ~capture.ok
         THEN /\ mon_calls' = <<>>
              /\ UNCHANGED <<mon_last_title, mon_last_state, mon_prev>>
         ELSE LET changed == mon_last_title # capture.title
                  state == DesktopState(capture.title, mon_last_title,
                                        changed)
              IN  /\ mon_last_title' =
                        IF changed THEN capture.title ELSE mon_last_title
                  /\ mon_calls' =
                        (IF changed
                           THEN <<[callback |-> "on_window_change",
                                   state |-> state]>>
                           ELSE <<>>)
                        \o <<[callback |-> "on_state_change",
                              state |-> state]>>
                  /\ mon_last_state' = state
                  /\ mon_prev' = capture.title
    /\ UNCHANGED mon_monitoring

InitMonitor ==
    /\ mon_monitoring = FALSE
    /\ mon_last_title = None
    /\ mon_last_state = NoState
    /\ mon_prev = NoCapture
    /\ mon_calls = <<>>

\* ---------------------------------------------------- ProactiveDialogService
\* probabilities and random draws are counted in tenths: random_probability
\* is pd_probability / Tenths, random.random() is draw / Tenths with
\* 0 <= draw < Tenths
Tenths == 10
DefaultProbability == 3
Draws == 0..(Tenths - 1)
Probabilities == 0..Tenths

NoCycle == [ran |-> FALSE]

\* ProactiveDialogService.start
DialogStart ==
    /\ ~pd_running
    /\ pd_running' = TRUE
    /\ pd_cycle' = NoCycle
    /\ UNCHANGED pd_probability

\* ProactiveDialogService.stop
DialogStop ==
    /\ pd_running
    /\ pd_running' = FALSE
    /\ pd_cycle' = NoCycle
    /\ UNCHANGED pd_probability

\* update_config(random_probability = p)
SetProbability(p) ==
    /\ pd_probability' = p
    /\ pd_cycle' = NoCycle
    /\ UNCHANGED pd_running

\* one cycle of _random_trigger_loop after its sleep, the service still
\* running: `if random.random() > random_probability: continue`, else a
\* RANDOM TriggerEvent with the monitor's last state is passed to
\* _fire_trigger
RandomCycle(draw) ==
    /\ pd_running
    /\ pd_cycle' = [ran |-> TRUE, draw |-> draw,
                    fired |-> ~(draw > pd_probability),
                    trigger_type |-> "random",
                    desktop_state |-> mon_last_state]
    /\ UNCHANGED <<pd_running, pd_probability>>

InitDialog ==
    /\ pd_running = FALSE
    /\ pd_probability = DefaultProbability
    /\ pd_cycle = NoCycle

\* ------------------------------------------------------- scheduled greetings
\* a datetime is a calendar day with an hour and a minute; a time of day
\* (datetime.time) is an hour and a minute
Days == 1..MaxDays
DayTimes ==
    {[hour |-> 8, minute |-> 59], [hour |-> 9, minute |-> 0],
     [hour |-> 9, minute |-> 1], [hour |-> 12, minute |-> 0]}
DateTimes ==
    {[day |-> d, hour |-> tm.hour, minute |-> tm.minute] :
        d \in Days, tm \in DayTimes}
NoTime == [day |-> 0]
MinutesPerHour == 60
DefaultGreetingTimes ==
    <<[hour |-> 9, minute |-> 0], [hour |-> 12, minute |-> 0],
      [hour |-> 18, minute |-> 0]>>
\* the times add_scheduled_greeting is called with
AddedTimes == {[hour |-> 9, minute |-> 1]}
GreetingIds == 1..(Len(DefaultGreetingTimes) + MaxAdds)

\* ScheduledGreeting(time, message_hint, enabled); id stands for the identity
\* of the object
ScheduledGreeting(id, time, enabled) ==
    [id |-> id, time |-> time, enabled |-> enabled, last_triggered |-> NoTime]

Abs(n) == IF n < 0 THEN 0 - n ELSE n
\* t.hour * 60 + t.minute
MinuteOfDay(tm) == tm.hour * MinutesPerHour + tm.minute
\* a <= b for datetimes
NotAfter(a, b) ==
    \/ a.day < b.day
    \/ a.day = b.day /\ MinuteOfDay(a) <= MinuteOfDay(b)

\* the test of _scheduled_trigger_loop for one greeting at the time now
Due(greeting, now) ==
    /\ greeting.enabled
    /\ Abs(MinuteOfDay(greeting.time) - MinuteOfDay(now)) <= 1
    /\ ~(greeting.last_triggered # NoTime
            /\ greeting.last_triggered.day = now.day)

\* the ids of the greetings of the list that are due at now, in list order
RECURSIVE FiredIds(_, _)
FiredIds(greetings, now) ==
    IF greetings = <<>> THEN <<>>
    ELSE (IF Due(Head(greetings), now) THEN <<Head(greetings).id>>
          ELSE <<>>) \o FiredIds(Tail(greetings), now)

\* the wall clock moves on (it is taken never to move back)
ClockAdvance(now) ==
    /\ NotAfter(sg_now, now)
    /\ now # sg_now
    /\ sg_now' = now
    /\ sg_tick' = NoCycle
    /\ UNCHANGED <<sg_greetings, sg_next_id, sg_fired_on>>

\* add_scheduled_greeting(hour, minute, message_hint, enabled)
AddScheduledGreeting(time, enabled) ==
    /\ sg_next_id <= Len(DefaultGreetingTimes) + MaxAdds
    /\ sg_greetings' =
          Append(sg_greetings, ScheduledGreeting(sg_next_id, time, enabled))
    /\ sg_next_id' = sg_next_id + 1
    /\ sg_tick' = NoCycle
    /\ UNCHANGED <<sg_now, sg_fired_on>>

\* remove_scheduled_greeting(index), the index counted from 0; an index out
\* of range changes nothing
RemoveScheduledGreeting(index) ==
    /\ sg_greetings' =
          IF 0 <= index /\ index < Len(sg_greetings)
            THEN SubSeq(sg_greetings, 1, index)
                    \o SubSeq(sg_greetings, index + 2, Len(sg_greetings))
            ELSE sg_greetings
    /\ sg_tick' = NoCycle
    /\ UNCHANGED <<sg_now, sg_next_id, sg_fired_on>>

\* _scheduled_trigger_loop that marks a greeting only when the trigger
\* callback has returned
ScheduledTick_markafter(raises) ==
    /\ pd_running
    /\ LET fired == FiredIds(sg_greetings, sg_now)
       IN  /\ sg_greetings' =
                 [i \in DOMAIN sg_greetings |->
                     IF Due(sg_greetings[i], sg_now) /\ ~raises
                       THEN [sg_greetings[i] EXCEPT !.last_triggered = sg_now]
                       ELSE sg_greetings[i]]
           /\ sg_fired_on' =
                 [id \in GreetingIds |->
                     IF id \in Range(fired)
                       THEN sg_fired_on[id] \cup {sg_now.day}
                       ELSE sg_fired_on[id]]
           /\ sg_tick' = [ran |-> TRUE, fired |-> fired, raised |-> raises]
    /\ UNCHANGED <<sg_now, sg_next_id>>

\* one pass of _scheduled_trigger_loop: now is read once; every enabled
\* greeting within one minute of now that was not triggered on now's date
\* gets last_triggered = now and then its event is passed to _fire_trigger,
\* which logs an exception of the callback
ScheduledTick(raises) ==
    /\ pd_running
    /\ LET fired == FiredIds(sg_greetings, sg_now)
       IN  /\ sg_greetings' =
                 [i \in DOMAIN sg_greetings |->
                     IF Due(sg_greetings[i], sg_now)
                       THEN [sg_greetings[i] EXCEPT !.last_triggered = sg_now]
                       ELSE sg_greetings[i]]
           /\ sg_fired_on' =
                 [id \in GreetingIds |->
                     IF id \in Range(fired)
                       THEN sg_fired_on[id] \cup {sg_now.day}
                       ELSE sg_fired_on[id]]
           /\ sg_tick' = [ran |-> TRUE, fired |-> fired, raised |-> raises]
    /\ UNCHANGED <<sg_now, sg_next_id>>

\* ProactiveDialogConfig.__post_init__: three enabled greetings
InitGreetings ==
    /\ sg_greetings =
          [i \in DOMAIN DefaultGreetingTimes |->
              ScheduledGreeting(i, DefaultGreetingTimes[i], TRUE)]
    /\ sg_now = [day |-> 1, hour |-> 8, minute |-> 59]
    /\ sg_next_id = Len(DefaultGreetingTimes) + 1
    /\ sg_fired_on = [id \in GreetingIds |-> {}]
    /\ sg_tick = NoCycle

\* -------------------------------------------------------- FloatingBallWindow
\* positions are taken along one axis, so the Manhattan length of a
\* difference is its absolute value
PointerPositions == {0, 2, 4, 9}
WindowPositions == 0..12
DefaultPosition == 3
\* QTimer intervals are counted in milliseconds; time passes in steps
ClickInterval == 250
DragThreshold == 5
ElapseSteps == {50, 100}
Inactive == -1
Buttons == {"left", "right"}

Min(a, b) == IF a < b THEN a ELSE b

\* mousePressEvent: the left button starts a drag and stores the offset of
\* the pointer in the window; the right button shows the context menu. Qt
\* delivers a left press only while the left button is up.
MousePress(button, g) ==
    IF button = "left"
      THEN /\ ball_obs.last_event \in {"none", "release", "dclick_release"}
           /\ ball' = [ball EXCEPT !.dragging = TRUE,
                                   !.drag_start_pos = g - ball.pos]
           /\ ball_obs' = [emitted |-> <<>>, kind |-> "pressed",
                           clicks |-> 0, dclicks |-> 0, travel |-> 0,
                           pointer |-> g, last_event |-> "press"]
      ELSE /\ ball' = ball
           /\ ball_obs' = [ball_obs EXCEPT !.emitted = <<"context_menu">>]

\* mouseMoveEvent: while dragging the window follows the pointer
MouseMove(g) ==
    /\ g # ball_obs.pointer
    /\ IF ball.dragging
         THEN /\ g - ball.drag_start_pos \in WindowPositions
              /\ ball' = [ball EXCEPT !.pos = g - ball.drag_start_pos]
         ELSE ball' = ball
    /\ ball_obs' =
          [ball_obs EXCEPT
              !.emitted = <<>>,
              !.pointer = g,
              !.travel = IF ball_obs.last_event = "press"
                           THEN Min(DragThreshold,
                                    @ + Abs(g - ball_obs.pointer))
                           ELSE @]

\* mouseReleaseEvent of the left button: a release closer than 5 pixels to
\* the point the window was dragged to arms the 250 ms single-click timer
MouseRelease(g) ==
    /\ ball_obs.last_event \in {"press", "dclick"}
    /\ LET move_distance == Abs(g - (ball.drag_start_pos + ball.pos))
           click == ball.dragging /\ move_distance < DragThreshold
           travel == Min(DragThreshold,
                         ball_obs.travel + Abs(g - ball_obs.pointer))
       IN  /\ ball' = [ball EXCEPT
                          !.dragging = FALSE,
                          !.pending_click = IF click THEN TRUE ELSE @,
                          !.click_timer = IF click THEN ClickInterval ELSE @]
           /\ ball_obs' =
                 IF ball_obs.last_event = "press"
                   THEN [ball_obs EXCEPT
                            !.emitted = <<>>,
                            !.pointer = g,
                            !.travel = travel,
                            !.clicks = 0,
                            !.dclicks = 0,
                            !.kind = IF travel < DragThreshold
                                       THEN "click" ELSE "drag",
                            !.last_event = "release"]
                   ELSE [ball_obs EXCEPT
                            !.emitted = <<>>,
                            !.pointer = g,
                            !.last_event = "dclick_release"]

\* mouseDoubleClickEvent that leaves the single-click timer running
MouseDoubleClick_nostop(g) ==
    /\ ball_obs.last_event = "release"
    /\ ball' = ball
    /\ ball_obs' =
          [ball_obs EXCEPT
              !.emitted = <<"double_clicked", "on_open_chat">>,
              !.pointer = g,
              !.dclicks = @ + 1,
              !.kind = IF ball_obs.kind = "click"
                          /\ ball.click_timer # Inactive
                         THEN "double" ELSE "late_double",
              !.last_event = "dclick"]

\* mouseDoubleClickEvent of the left button, which Qt delivers in place of
\* the second press of a double click: the pending click is dropped, the
\* timer stopped, double_clicked emitted and on_open_chat called
MouseDoubleClick(g) ==
    /\ ball_obs.last_event = "release"
    /\ ball' = [ball EXCEPT !.pending_click = FALSE,
                            !.click_timer = Inactive]
    /\ ball_obs' =
          [ball_obs EXCEPT
              !.emitted = <<"double_clicked", "on_open_chat">>,
              !.pointer = g,
              !.dclicks = @ + 1,
              !.kind = IF ball_obs.kind = "click"
                          /\ ball.click_timer # Inactive
                         THEN "double" ELSE "late_double",
              !.last_event = "dclick"]

\* time passes, no longer than the running timer has left
Elapse(d) ==
    /\ ball.click_timer # Inactive
    /\ d <= ball.click_timer
    /\ ball' = [ball EXCEPT !.click_timer = @ - d]
    /\ ball_obs' = [ball_obs EXCEPT !.emitted = <<>>]

\* the single-shot timer times out and calls _on_single_click
OnSingleClick ==
    /\ ball.click_timer = 0
    /\ ball' = [ball EXCEPT !.click_timer = Inactive,
                            !.pending_click = FALSE]
    /\ ball_obs' =
          [ball_obs EXCEPT
              !.emitted = IF ball.pending_click THEN <<"clicked">> ELSE <<>>,
              !.clicks = IF ball.pending_click THEN @ + 1 ELSE @]

InitBall ==
    /\ ball = [dragging |-> FALSE, drag_start_pos |-> 0,
               pos |-> DefaultPosition, pending_click |-> FALSE,
               click_timer |-> Inactive]
    /\ ball_obs = [emitted |-> <<>>, kind |-> "none", clicks |-> 0,
                   dclicks |-> 0, travel |-> 0, pointer |-> 0,
                   last_event |-> "none"]

\* ---------------------------------------------------------------- ChatWindow
\* a text is a sequence of characters; "" is <<>> and + is \o
Texts == {<<>>, <<"x">>, <<"y">>}
NoBubble == 0
\* the OutputMessage values the polling loop hands over: type, content,
\* streaming, and for a proactive message whether metadata carries a
\* screenshot_path
OutputMessages ==
    [type : {"text"}, content : Texts, streaming : BOOLEAN,
     screenshot : {FALSE}]
    \cup [type : {"image", "error", "end", "thinking"}, content : {<<"x">>},
          streaming : {TRUE}, screenshot : {FALSE}]
    \cup [type : {"proactive"}, content : {<<"y">>}, streaming : {FALSE},
          screenshot : BOOLEAN]

Widget(kind, content, is_user) ==
    [kind |-> kind, content |-> content, is_user |-> is_user]

\* add_text_message that shows only the latest chunk in the streaming bubble
add_text_message_latest(c, text, is_user, streaming) ==
    IF streaming /\ ~is_user
      THEN LET created == c.streaming_message = NoBubble
               layout == IF created
                           THEN Append(c.layout, Widget("text", <<>>, FALSE))
                           ELSE c.layout
               bubble == IF created THEN Len(layout)
                         ELSE c.streaming_message
           IN  [layout |-> [layout EXCEPT ![bubble].content = text],
                streaming_message |-> bubble,
                streaming_text |-> text]
      ELSE [c EXCEPT !.layout = Append(@, Widget("text", text, is_user))]

\* ChatWindow.add_text_message: a streaming assistant text goes into the
\* streaming bubble, created empty when there is none, whose text becomes
\* the accumulated text; any other text gets a bubble of its own
add_text_message(c, text, is_user, streaming) ==
    IF streaming /\ ~is_user
      THEN LET created == c.streaming_message = NoBubble
               layout == IF created
                           THEN Append(c.layout, Widget("text", <<>>, FALSE))
                           ELSE c.layout
               bubble == IF created THEN Len(layout)
                         ELSE c.streaming_message
               streaming_text ==
                   (IF created THEN <<>> ELSE c.streaming_text) \o text
           IN  [layout |-> [layout EXCEPT ![bubble].content = streaming_text],
                streaming_message |-> bubble,
                streaming_text |-> streaming_text]
      ELSE [c EXCEPT !.layout = Append(@, Widget("text", text, is_user))]

\* add_image_message, add_voice_message, add_file_message
add_media_message(c, kind, path, is_user) ==
    [c EXCEPT !.layout = Append(@, Widget(kind, path, is_user))]

\* add_system_message
add_system_message(c, text) ==
    [c EXCEPT !.layout = Append(@, Widget("system", text, FALSE))]

\* finish_streaming_message
finish_streaming_message(c) ==
    [c EXCEPT !.streaming_message = NoBubble, !.streaming_text = <<>>]

\* DesktopApp._handle_proactive_message: a system label, the greeting in a
\* bubble of its own, and the screenshot when there is one
handle_proactive_message(c, msg) ==
    LET labelled == add_system_message(c, <<"[", "]">>)
        greeted == add_text_message(labelled, msg.content, FALSE, FALSE)
    IN  IF msg.screenshot
          THEN add_media_message(greeted, "image", <<"p">>, FALSE)
          ELSE greeted

\* DesktopApp._handle_output_message, the chat window created
handle_output_message(c, msg) ==
    CASE msg.type = "text" ->
            add_text_message(c, msg.content, FALSE, msg.streaming)
      [] msg.type \in {"image", "voice", "file"} ->
            add_media_message(c, msg.type, msg.content, FALSE)
      [] msg.type = "error" ->
            add_system_message(c, <<"e", ":">> \o msg.content)
      [] msg.type = "end" -> finish_streaming_message(c)
      [] msg.type = "proactive" -> handle_proactive_message(c, msg)
      [] OTHER -> c

\* the polling loop hands one output message to _handle_output_message
HandleOutputMessage(msg) ==
    /\ chat_obs.shown < MaxShown
    /\ chat' = handle_output_message(chat, msg)
    /\ chat_obs' =
          [shown |-> chat_obs.shown + 1,
           last |-> msg,
           chunks |-> IF msg.type = "end" THEN 0
                      ELSE IF msg.type = "text" /\ msg.streaming
                             THEN chat_obs.chunks + 1
                             ELSE chat_obs.chunks,
           expected |-> IF msg.type = "end" THEN <<>>
                        ELSE IF msg.type = "text" /\ msg.streaming
                               THEN chat_obs.expected \o msg.content
                               ELSE chat_obs.expected]

\* _send_text_message: the user's own text is shown in a bubble
SendTextMessage(text) ==
    /\ chat_obs.shown < MaxShown
    /\ chat' = add_text_message(chat, text, TRUE, FALSE)
    /\ chat_obs' =
          [chat_obs EXCEPT
              !.shown = @ + 1,
              !.last = [type |-> "user", content |-> text,
                        streaming |-> FALSE, screenshot |-> FALSE]]

InitChat ==
    /\ chat = [layout |-> <<>>, streaming_message |-> NoBubble,
               streaming_text |-> <<>>]
    /\ chat_obs = [shown |-> 0,
                   last |-> [type |-> "none", content |-> <<>>,
                             streaming |-> FALSE, screenshot |-> FALSE],
                   chunks |-> 0, expected |-> <<>>]

\* ------------------------------------------------------------ SettingsWindow
\* of the configuration dict three keys are kept: the two intervals the save
\* validates, and avatar_path, which the window shows as a label text
MinIntervals == {60, 300, 900}
MaxIntervals == {120, 300, 900}
AvatarFiles == {"a.png"}
NotSet == "not_set"
DefaultSettings ==
    [proactive_min_interval |-> 300, proactive_max_interval |-> 900,
     avatar_path |-> ""]

\* _load_config_to_ui
load_config_to_ui(config) ==
    [min_spin |-> config.proactive_min_interval,
     max_spin |-> config.proactive_max_interval,
     avatar_label |-> IF config.avatar_path # "" THEN config.avatar_path
                      ELSE NotSet]

\* _save_ui_to_config: a copy of config with the widgets' values
save_ui_to_config(config, ui) ==
    [config EXCEPT
        !.proactive_min_interval = ui.min_spin,
        !.proactive_max_interval = ui.max_spin,
        !.avatar_path = IF ui.avatar_label # NotSet THEN ui.avatar_label
                        ELSE ""]

Quiet(op) ==
    [op |-> op, emitted |-> <<>>, called |-> <<>>, warned |-> FALSE,
     accepted |-> FALSE]

\* the user edits the two spin boxes
EditIntervals(min_interval, max_interval) ==
    /\ settings' = [settings EXCEPT !.ui.min_spin = min_interval,
                                    !.ui.max_spin = max_interval]
    /\ settings_obs' = Quiet("edit")

\* _on_select_avatar with a file chosen, _on_clear_avatar
EditAvatar(label) ==
    /\ settings' = [settings EXCEPT !.ui.avatar_label = label]
    /\ settings_obs' = Quiet("edit")

\* _on_reset_defaults confirmed
OnResetDefaults ==
    /\ settings' = [config |-> DefaultSettings,
                    ui |-> load_config_to_ui(DefaultSettings)]
    /\ settings_obs' = Quiet("reset")

\* _on_save without the validation
OnSave_unchecked(raises) ==
    LET new_config == save_ui_to_config(settings.config, settings.ui)
    IN  /\ settings' = [settings EXCEPT !.config = new_config]
        /\ settings_obs' =
              [op |-> "save", emitted |-> <<new_config>>,
               called |-> <<new_config>>, warned |-> FALSE,
               accepted |-> ~raises]

\* _on_save: a minimum not below the maximum shows a warning and returns;
\* otherwise the snapshot becomes the config, is emitted with
\* settings_saved and passed to on_settings_changed, and the dialog is
\* accepted unless the callback raised
OnSave(raises) ==
    LET min_interval == settings.ui.min_spin
        max_interval == settings.ui.max_spin
        new_config == save_ui_to_config(settings.config, settings.ui)
    IN  IF min_interval >= max_interval
          THEN /\ settings' = settings
               /\ settings_obs' = [Quiet("save") EXCEPT !.warned = TRUE]
          ELSE /\ settings' = [settings EXCEPT !.config = new_config]
               /\ settings_obs' =
                     [op |-> "save", emitted |-> <<new_config>>,
                      called |-> <<new_config>>, warned |-> FALSE,
                      accepted |-> ~raises]

InitSettings ==
    /\ settings = [config |-> DefaultSettings,
                   ui |-> load_config_to_ui(DefaultSettings)]
    /\ settings_obs = Quiet("none")

\* ------------------------------------------------------ AudioRecorderService
ThreadIds == 1..MaxStarts
NoThread == 0
NoStartTime == 0

RecLabel(op, ret) == [rec_obs EXCEPT !.op = op, !.ret = ret]

\* start_recording that does not test _is_recording
StartRecording_restart ==
    /\ rec_obs.started < MaxStarts
    /\ LET thread == rec_obs.started + 1
       IN  /\ recorder' = [is_recording |-> TRUE,
                           recorded_data |-> <<>>,
                           record_thread |-> thread,
                           stop_event |-> FALSE,
                           record_start_time |-> thread]
           /\ rec_threads' = [rec_threads EXCEPT ![thread] = "alive"]
           /\ rec_obs' = [op |-> "start_recording", ret |-> TRUE,
                          started |-> thread]

\* start_recording: False while _is_recording; otherwise the flag is set,
\* the buffer emptied, the stop event cleared, the start time read and a
\* new capture thread started
StartRecording ==
    IF recorder.is_recording
      THEN /\ rec_obs' = RecLabel("start_recording", FALSE)
           /\ UNCHANGED <<recorder, rec_threads>>
      ELSE /\ rec_obs.started < MaxStarts
           /\ LET thread == rec_obs.started + 1
              IN  /\ recorder' = [is_recording |-> TRUE,
                                  recorded_data |-> <<>>,
                                  record_thread |-> thread,
                                  stop_event |-> FALSE,
                                  record_start_time |-> thread]
                  /\ rec_threads' = [rec_threads EXCEPT ![thread] = "alive"]
                  /\ rec_obs' = [op |-> "start_recording", ret |-> TRUE,
                                 started |-> thread]

\* stop_recording: None while not _is_recording; otherwise the stop event
\* is set, the thread joined for at most a second (joined tells whether it
\* ended in that time, its finally clause clearing the flag), the flag and
\* the start time cleared, and a file path returned when frames were
\* buffered and save_to_file is set
StopRecording(save_to_file, joined) ==
    IF ~recorder.is_recording
      THEN /\ rec_obs' = RecLabel("stop_recording", None)
           /\ UNCHANGED <<recorder, rec_threads>>
      ELSE LET thread == recorder.record_thread
           IN  /\ recorder' = [recorder EXCEPT
                                  !.stop_event = TRUE,
                                  !.is_recording = FALSE,
                                  !.record_start_time = NoStartTime]
               /\ rec_threads' =
                     IF thread # NoThread /\ joined
                       THEN [rec_threads EXCEPT ![thread] = "done"]
                       ELSE rec_threads
               /\ rec_obs' =
                     RecLabel("stop_recording",
                              IF recorder.recorded_data # <<>>
                                   /\ save_to_file
                                THEN "filepath" ELSE None)

\* record_callback in a live thread: a frame is buffered unless the stop
\* event is set
RecordCallback(thread) ==
    /\ rec_threads[thread] = "alive"
    /\ ~recorder.stop_event
    /\ Len(recorder.recorded_data) < MaxFrames
    /\ recorder' = [recorder EXCEPT !.recorded_data = Append(@, thread)]
    /\ rec_obs' = RecLabel("record_callback", None)
    /\ UNCHANGED rec_threads

\* record_thread ends, because the stop event is set or because the input
\* stream raised; its finally clause clears _is_recording
RecordThreadEnd(thread, error) ==
    /\ rec_threads[thread] = "alive"
    /\ error \/ recorder.stop_event
    /\ rec_threads' = [rec_threads EXCEPT ![thread] = "done"]
    /\ recorder' = [recorder EXCEPT !.is_recording = FALSE]
    /\ rec_obs' = RecLabel("record_thread", None)

InitRecorder ==
    /\ recorder = [is_recording |-> FALSE, recorded_data |-> <<>>,
                   record_thread |-> NoThread, stop_event |-> FALSE,
                   record_start_time |-> NoStartTime]
    /\ rec_threads = [thread \in ThreadIds |-> "unborn"]
    /\ rec_obs = [op |-> "none", ret |-> None, started |-> 0]

\* ------------------------------------------------------- the service tasks
Services == {"monitor", "dialog"}
\* _monitor_task, _cleanup_task, _proactive_task of DesktopMonitorService;
\* _random_task, _scheduled_task, _idle_task of ProactiveDialogService
TaskOrder ==
    [monitor |-> <<"monitor_loop", "proactive_loop", "cleanup_loop">>,
     dialog |-> <<"random_loop", "scheduled_loop", "idle_loop">>]
TasksOf(s) == Range(TaskOrder[s])
Tasks == TasksOf("monitor") \cup TasksOf("dialog")
Owner(task) == IF task \in TasksOf("monitor") THEN "monitor" ELSE "dialog"
\* the tasks start() creates only when their switch is on: _proactive_enabled;
\* config.random_enabled, scheduled_enabled, idle_enabled
Optional ==
    [monitor |-> {"proactive_loop"},
     dialog |-> {"random_loop", "scheduled_loop", "idle_loop"}]
\* the loops whose body runs before their first sleep
RunsFirst == {"monitor_loop", "scheduled_loop", "idle_loop"}
\* the loops that test the running flag between waking up and acting
ChecksAfterSleep == Tasks \ {"cleanup_loop"}
\* the loops that test the running flag right after a callback returns
ChecksAfterCallback == {"proactive_loop", "random_loop"}
\* the loops that may call several callbacks in one iteration
CallsSeveral == {"monitor_loop", "scheduled_loop"}
\* what an iteration does before any callback
Work ==
    [monitor_loop |-> "capture", proactive_loop |-> "capture",
     cleanup_loop |-> "cleanup", random_loop |-> "draw",
     scheduled_loop |-> "check", idle_loop |-> "check"]
\* the loops that await a callback
Calling == Tasks \ {"cleanup_loop"}

Flag(s) == IF s = "monitor" THEN mon_monitoring ELSE pd_running

SvcLabel(op, task, performed, raised) ==
    [op |-> op, task |-> task, performed |-> performed, raised |-> raised]

\* start() past its guard: the optional tasks that are switched on and the
\* others are created
CreateTasks(s, enabled) ==
    /\ ~svc[s].stopping
    /\ LET created == (TasksOf(s) \ Optional[s]) \cup enabled
       IN  /\ tasks' = [task \in Tasks |->
                           IF task \in created THEN "created"
                           ELSE tasks[task]]
           /\ svc' = [svc EXCEPT
                         ![s].handles = @ \cup created,
                         ![s].stopped = FALSE]
    /\ svc_obs' = SvcLabel("start", s, {}, FALSE)

\* stop() up to its loop: the running flag is cleared by the caller of this
\* step and the handles are listed
StopBegin(s) ==
    /\ ~svc[s].stopping
    /\ svc' = [svc EXCEPT
                  ![s].stopping = TRUE,
                  ![s].awaiting =
                      SelectSeq(TaskOrder[s],
                                LAMBDA task : task \in svc[s].handles)]
    /\ svc_obs' = SvcLabel("stop", s, {}, FALSE)
    /\ UNCHANGED tasks

\* stop() that goes on to the next handle without cancelling the task
StopAwait_skip(s) ==
    /\ svc[s].awaiting # <<>>
    /\ svc' = [svc EXCEPT ![s].awaiting = Tail(@)]
    /\ svc_obs' = SvcLabel("stop", s, {}, FALSE)
    /\ UNCHANGED tasks

\* stop(), one round of its loop: task.cancel() and await task; the task,
\* wherever it is suspended, gets CancelledError, which no handler of its
\* loop turns into another iteration, and is finished when the await returns
StopAwait(s) ==
    /\ svc[s].awaiting # <<>>
    /\ tasks' = [tasks EXCEPT ![Head(svc[s].awaiting)] = "done"]
    /\ svc' = [svc EXCEPT ![s].awaiting = Tail(@)]
    /\ svc_obs' = SvcLabel("stop", s, {}, FALSE)

\* stop() after its loop: the handles are cleared and stop() returns
StopReturn(s) ==
    /\ svc[s].stopping
    /\ svc[s].awaiting = <<>>
    /\ svc' = [svc EXCEPT ![s].handles = {},
                          ![s].stopping = FALSE,
                          ![s].stopped = TRUE]
    /\ svc_obs' = SvcLabel("stop_returned", s, {}, FALSE)
    /\ UNCHANGED tasks

\* a task is scheduled, for the first time or because its sleep is over. A
\* loop that sleeps first goes to sleep; a loop that tests its flag and
\* finds it cleared ends; otherwise the iteration does its work, where an
\* exception (raises) is caught and logged, and either awaits a callback
\* (calls) or goes back to sleep. The cleanup loop tests the flag only
\* after its work.
TaskRun(task, raises, calls) ==
    /\ tasks[task] \in {"created", "sleep"}
    /\ LET s == Owner(task)
       IN  IF tasks[task] = "created" /\ task \notin RunsFirst
             THEN /\ ~raises /\ ~calls
                  /\ tasks' = [tasks EXCEPT ![task] =
                                  IF Flag(s) THEN "sleep" ELSE "done"]
                  /\ svc_obs' = SvcLabel("task", task, {}, FALSE)
             ELSE IF task \in ChecksAfterSleep /\ ~Flag(s)
                    THEN /\ ~raises /\ ~calls
                         /\ tasks' = [tasks EXCEPT ![task] = "done"]
                         /\ svc_obs' = SvcLabel("task", task, {}, FALSE)
                    ELSE /\ calls => task \in Calling /\ ~raises
                         /\ tasks' = [tasks EXCEPT ![task] =
                                         IF calls THEN "callback"
                                         ELSE IF task \in ChecksAfterSleep
                                                   \/ Flag(s)
                                                THEN "sleep" ELSE "done"]
                         /\ svc_obs' =
                               SvcLabel("task", task,
                                        {Work[task]}
                                           \cup IF calls THEN {"callback"}
                                                ELSE {},
                                        raises)
    /\ UNCHANGED svc

\* a loop that ends when the callback it awaits raises
TaskCallbackReturn_fatal(task, raised, more) ==
    /\ tasks[task] = "callback"
    /\ ~more
    /\ tasks' = [tasks EXCEPT ![task] =
                    IF raised THEN "done" ELSE "sleep"]
    /\ svc_obs' = SvcLabel("task", task, {}, raised)
    /\ UNCHANGED svc

\* the callback a task awaits returns or raises; _safe_callback and
\* _fire_trigger log the exception. The iteration then calls its next
\* callback (more), or is over: the loop sleeps, or ends when it tests its
\* flag at once and finds it cleared.
TaskCallbackReturn(task, raised, more) ==
    /\ tasks[task] = "callback"
    /\ more => task \in CallsSeveral
    /\ tasks' = [tasks EXCEPT ![task] =
                    IF more THEN "callback"
                    ELSE IF task \in ChecksAfterCallback
                              /\ ~Flag(Owner(task))
                           THEN "done" ELSE "sleep"]
    /\ svc_obs' = SvcLabel("task", task,
                           IF more THEN {"callback"} ELSE {}, raised)
    /\ UNCHANGED svc

InitServices ==
    /\ tasks = [task \in Tasks |-> "none"]
    /\ svc = [s \in Services |->
                 [handles |-> {}, stopping |-> FALSE, awaiting |-> <<>>,
                  stopped |-> FALSE]]
    /\ svc_obs = SvcLabel("none", "none", {}, FALSE)

\* ------------------------------------------- the window-change strategy
\* datetime.now() is read in seconds and does not go back
MaxClock == 720
ClockSteps == {30, 150}
\* None, as the value of a timestamp
NoTrigger == -1
\* ProactiveDialogConfig.window_change_cooldown, in seconds
Cooldown == 60
\* ProactiveDialogConfig.window_change_probability, in tenths
WindowChangeProbability == 2

ClockTick(d) ==
    /\ pd_clock + d <= MaxClock
    /\ pd_clock' = pd_clock + d

NoCall == [called |-> FALSE]

\* update_config(window_change_enabled = enabled)
UpdateConfig(enabled) ==
    /\ wc' = [wc EXCEPT !.window_change_enabled = enabled]
    /\ wc_obs' = NoCall
    /\ UNCHANGED pd_clock

\* _on_window_change without its cooldown test
OnWindowChange_nocooldown(draw) ==
    LET now == pd_clock
        fires == /\ pd_running /\ wc.window_change_enabled
                 /\ ~(draw > WindowChangeProbability)
    IN  /\ wc' = IF fires
                   THEN [wc EXCEPT !.last_window_change_trigger = now,
                                   !.delivered = now]
                   ELSE wc
        /\ wc_obs' = [called |-> TRUE, fired |-> fires,
                      rejected |-> "none", timestamp |-> now,
                      previous |-> wc.delivered]
        /\ UNCHANGED pd_clock

\* _on_window_change(state), where random.random() is draw / Tenths. The
\* timestamp is stored before _fire_trigger is awaited, so that the handler
\* is one step.
OnWindowChange(draw) ==
    LET now == pd_clock
        last == wc.last_window_change_trigger
        rejected ==
            IF ~pd_running \/ ~wc.window_change_enabled THEN "off"
            ELSE IF last # NoTrigger /\ now - last < Cooldown THEN "cooldown"
            ELSE IF draw > WindowChangeProbability THEN "probability"
            ELSE "none"
    IN  /\ wc' = IF rejected = "none"
                   THEN [wc EXCEPT !.last_window_change_trigger = now,
                                   !.delivered = now]
                   ELSE wc
        /\ wc_obs' = [called |-> TRUE, fired |-> rejected = "none",
                      rejected |-> rejected, timestamp |-> now,
                      previous |-> wc.delivered]
        /\ UNCHANGED pd_clock

InitWindowChange ==
    /\ pd_clock = 0
    /\ wc = [window_change_enabled |-> TRUE,
             last_window_change_trigger |-> NoTrigger,
             delivered |-> NoTrigger]
    /\ wc_obs = NoCall

\* -------------------------------------------------------- the idle strategy
\* ProactiveDialogConfig.idle_threshold, in seconds
IdleThreshold == 300
\* the sleep between two checks of the idle loop, in seconds
IdleSleep == 30

NoCheck == [checked |-> FALSE]

\* start() with config.idle_enabled set: the idle task is created and runs
\* its first iteration when it is scheduled
IdleStart ==
    /\ ~idle.started
    /\ idle' = [idle EXCEPT !.pc = "sleep", !.wake_at = pd_clock,
                            !.started = TRUE]
    /\ idle_obs' = NoCheck

\* stop(): the idle task is cancelled wherever it is suspended
IdleStop ==
    /\ idle' = [idle EXCEPT !.pc = "off"]
    /\ idle_obs' = NoCheck

\* record_activity()
RecordActivity ==
    /\ idle' = [idle EXCEPT !.last_activity_time = pd_clock,
                            !.quiet = FALSE,
                            !.recorded = pd_clock]
    /\ idle_obs' = NoCheck

\* one iteration of _idle_trigger_loop up to its first await: at the
\* threshold the IDLE event is built and _fire_trigger is awaited, below it
\* the loop sleeps
IdleCheck ==
    /\ idle.pc = "sleep"
    /\ pd_clock >= idle.wake_at
    /\ LET now == pd_clock
           idle_duration == now - idle.last_activity_time
       IN  IF idle_duration >= IdleThreshold
             THEN /\ idle' = [idle EXCEPT !.pc = "firing", !.now = now,
                                          !.delivered = now,
                                          !.quiet = TRUE]
                  /\ idle_obs' = [checked |-> TRUE, fired |-> TRUE,
                                  idle_duration |-> idle_duration,
                                  timestamp |-> now,
                                  previous |-> idle.delivered,
                                  quiet |-> idle.quiet]
             ELSE /\ idle' = [idle EXCEPT !.wake_at = now + IdleSleep]
                  /\ idle_obs' = [checked |-> TRUE, fired |-> FALSE,
                                  idle_duration |-> idle_duration,
                                  timestamp |-> now,
                                  previous |-> idle.delivered,
                                  quiet |-> idle.quiet]

\* an idle loop that leaves the activity time alone after a trigger
IdleFireReturn_noreset ==
    /\ idle.pc = "firing"
    /\ idle' = [idle EXCEPT !.pc = "sleep",
                            !.wake_at = pd_clock + IdleSleep]
    /\ idle_obs' = NoCheck

\* _fire_trigger returns, any exception of the callback logged: the activity
\* time becomes the now of this iteration and the loop sleeps
IdleFireReturn ==
    /\ idle.pc = "firing"
    /\ idle' = [idle EXCEPT !.pc = "sleep",
                            !.last_activity_time = idle.now,
                            !.wake_at = pd_clock + IdleSleep]
    /\ idle_obs' = NoCheck

InitIdle ==
    /\ idle = [pc |-> "off", wake_at |-> 0, now |-> 0,
               last_activity_time |-> 0, started |-> FALSE,
               delivered |-> NoTrigger, quiet |-> TRUE,
               recorded |-> NoTrigger]
    /\ idle_obs = NoCheck

\* ------------------------------ the desktop_state frames of the handler
\* a key the frame's data does not have
Missing == "missing"
\* datetime.now().isoformat()
IsoNow == "now"
\* the value of "data" in a desktop_state frame: a dict with a window title
\* and with or without a timestamp, or a value that is not a dict
StateData ==
    [is_dict : {TRUE}, active_window_title : Titles,
     timestamp : {"t1", Missing}]
       \cup {[is_dict |-> FALSE, active_window_title |-> None,
              timestamp |-> Missing]}

\* ClientDesktopState.from_dict, the fields the handler and the cache use
from_dict(session_id, data) ==
    [session_id |-> session_id,
     timestamp |-> IF data.timestamp = Missing THEN IsoNow
                   ELSE data.timestamp,
     active_window_title |-> data.active_window_title]

NoClientState ==
    [session_id |-> None, timestamp |-> None, active_window_title |-> None]

\* what the handler did for a frame: the step, and the title and timestamp
\* of the state it was done with
FrameEvent(step, title, timestamp) ==
    [step |-> step, title |-> title, timestamp |-> timestamp]

\* a handler that waits in receive_json and has seen no desktop_state frame
AtReceive ==
    [pc |-> "receive", state |-> NoClientState, callback |-> FALSE,
     raised |-> FALSE, events |-> <<>>]

\* the host registers or removes the callback
SetStateCallback(registered) ==
    /\ on_desktop_state_update' = registered
    /\ UNCHANGED <<cmVars, ds_frame>>

\* handle_websocket is entered for a session whose handler does not run
ConnectHandler(s) ==
    /\ Connect(s)
    /\ ds_frame' = [ds_frame EXCEPT ![s] = AtReceive]
    /\ UNCHANGED on_desktop_state_update

\* receive_json raises in the handler of the session
ReceiveRaises(s) ==
    /\ ds_frame[s].pc = "receive"
    /\ HandlerExit(s)
    /\ UNCHANGED dsVars

\* handle_websocket receives a desktop_state frame: update_client_state
\* parses the data and replaces the cached state, then the callback, if
\* one is registered, is called with the state and its result awaited. Data
\* that is not a dict makes from_dict raise, which ends the handler.
DesktopStateFrame(s, data) ==
    /\ s \in handlers
    /\ ds_frame[s].pc = "receive"
    /\ IF data.is_dict
         THEN LET state == from_dict(s, data)
                  cached == FrameEvent("cached", client_states'[s],
                                       state.timestamp)
                  called == FrameEvent("callback",
                                       state.active_window_title,
                                       state.timestamp)
              IN  /\ client_states' =
                        [client_states EXCEPT
                            ![s] = state.active_window_title]
                  /\ ds_frame' =
                        [ds_frame EXCEPT ![s] =
                            [pc |-> IF on_desktop_state_update
                                      THEN "callback" ELSE "ack",
                             state |-> state,
                             callback |-> on_desktop_state_update,
                             raised |-> FALSE,
                             events |->
                                 IF on_desktop_state_update
                                   THEN <<cached, called>>
                                   ELSE <<cached>>]]
                  /\ UNCHANGED <<handlers, active_connections>>
         ELSE /\ handlers' = handlers \ {s}
              /\ active_connections' = disconnect(active_connections, s)
              /\ ds_frame' = [ds_frame EXCEPT ![s] = AtReceive]
              /\ UNCHANGED client_states
    /\ UNCHANGED <<pending, futures, next_id, pc, files,
                   on_desktop_state_update>>
    /\ NoSend /\ NoHandle /\ NoReturn

\* a handler that an exception of the callback ends
DesktopStateCallbackReturn_fatal(s, raised) ==
    /\ ds_frame[s].pc = "callback"
    /\ ds_frame' = [ds_frame EXCEPT ![s].pc = IF raised THEN "receive" ELSE "ack",
                              ![s].raised = raised]
    /\ handlers' = IF raised THEN handlers \ {s} ELSE handlers
    /\ active_connections' =
           IF raised THEN disconnect(active_connections, s)
           ELSE active_connections
    /\ UNCHANGED <<client_states, pending, futures, next_id, pc, files,
                   on_desktop_state_update>>
    /\ NoSend /\ NoHandle /\ NoReturn

\* the callback returns or raises; an exception is logged
DesktopStateCallbackReturn(s, raised) ==
    /\ ds_frame[s].pc = "callback"
    /\ ds_frame' = [ds_frame EXCEPT ![s].pc = "ack", ![s].raised = raised]
    /\ UNCHANGED <<handlers, active_connections, client_states, pending,
                   futures, next_id, pc, files, on_desktop_state_update>>
    /\ NoSend /\ NoHandle /\ NoReturn

\* the handler sends desktop_state_ack with the timestamp of its state and
\* goes back to receive_json; ok is whether send_json returns (TRUE) or
\* raises (FALSE: the handler deregisters the session and ends)
DesktopStateAck(s, ok) ==
    /\ ds_frame[s].pc = "ack"
    /\ sent' = <<Frame(s, "desktop_state_ack")>>
    /\ ds_frame' = [ds_frame EXCEPT
                    ![s].pc = "receive",
                    ![s].events =
                        Append(@, FrameEvent("ack", None,
                                             ds_frame[s].state.timestamp))]
    /\ handlers' = IF ok THEN handlers ELSE handlers \ {s}
    /\ active_connections' =
           IF ok THEN active_connections
           ELSE disconnect(active_connections, s)
    /\ UNCHANGED <<client_states, pending, futures, next_id, pc, files,
                   on_desktop_state_update>>
    /\ NoHandle /\ NoReturn

InitStateFrames ==
    /\ on_desktop_state_update = FALSE
    /\ ds_frame = [s \in Sessions |-> AtReceive]

\* ------------------------------------- DesktopMessageEvent.send_streaming
\* the send_streaming calls in progress at a time, each on its own event
Replies == {1, 2}
\* message components: Plain with its text, Image with whether
\* convert_to_file_path returns or raises
Plain(text) == [kind |-> "plain", text |-> text, converts |-> TRUE]
Image(converts) == [kind |-> "image", text |-> <<>>, converts |-> converts]
\* the path convert_to_file_path returns
ConvertedPath == <<"f">>
\* the chains a generator yields: empty, one or two texts, a text with an
\* image, an image that cannot be converted
Chains ==
    {<<>>, <<Plain(<<"x">>)>>, <<Plain(<<"y">>)>>,
     <<Plain(<<"x">>), Plain(<<"y">>)>>,
     <<Plain(<<"x">>), Image(TRUE)>>, <<Image(FALSE)>>}

\* an OutputMessage given to put_output, with the reply it belongs to
QueuedMessage(reply, type, content, streaming, is_complete) ==
    [reply |-> reply, type |-> type, content |-> content,
     streaming |-> streaming, is_complete |-> is_complete]

\* MessageChain.get_plain_text: the texts of the Plain components of the
\* chain, in order
RECURSIVE get_plain_text(_)
get_plain_text(chain) ==
    IF chain = <<>> THEN <<>>
    ELSE (IF Head(chain).kind = "plain" THEN Head(chain).text ELSE <<>>)
            \o get_plain_text(Tail(chain))

\* _send_to_gui(message, streaming): the messages it puts, one per Plain
\* component and one per media component that is converted
RECURSIVE send_to_gui(_, _, _)
send_to_gui(reply, chain, streaming) ==
    IF chain = <<>> THEN <<>>
    ELSE LET comp == Head(chain)
             put == IF comp.kind = "plain"
                      THEN <<QueuedMessage(reply, "text", comp.text,
                                           streaming, FALSE)>>
                    ELSE IF comp.converts
                      THEN <<QueuedMessage(reply, "image", ConvertedPath,
                                           streaming, FALSE)>>
                    ELSE <<>>
         IN  put \o send_to_gui(reply, Tail(chain), streaming)

\* the chains yielded so far, over all replies
Yielded == Len(replies[1].yielded) + Len(replies[2].yielded)

\* send_streaming that keeps the text of the last chain only
StreamChunk_last(r, chain) ==
    /\ replies[r].pc \in {"new", "streaming"}
    /\ Yielded < MaxChains
    /\ st_out' = st_out \o send_to_gui(r, chain, TRUE)
    /\ replies' = [replies EXCEPT
                      ![r].pc = "streaming",
                      ![r].final_text = get_plain_text(chain),
                      ![r].yielded = Append(@, chain)]

\* send_streaming, one round of its loop: the generator yields a chain,
\* _send_to_gui puts its messages with streaming = True, and the plain text
\* of the chain is added to final_text
StreamChunk(r, chain) ==
    /\ replies[r].pc \in {"new", "streaming"}
    /\ Yielded < MaxChains
    /\ st_out' = st_out \o send_to_gui(r, chain, TRUE)
    /\ replies' = [replies EXCEPT
                      ![r].pc = "streaming",
                      ![r].final_text = @ \o get_plain_text(chain),
                      ![r].yielded = Append(@, chain)]

\* send_streaming after its loop: the generator is exhausted and the end
\* message is put
StreamEnd(r) ==
    /\ replies[r].pc \in {"new", "streaming"}
    /\ st_out' = Append(st_out,
                        QueuedMessage(r, "end", replies[r].final_text,
                                      TRUE, TRUE))
    /\ replies' = [replies EXCEPT ![r].pc = "done"]

\* the generator raises: send_streaming ends with the exception
StreamRaise(r) ==
    /\ replies[r].pc \in {"new", "streaming"}
    /\ replies' = [replies EXCEPT ![r].pc = "failed"]
    /\ UNCHANGED st_out

InitStreaming ==
    /\ replies = [r \in Replies |->
                     [pc |-> "new", final_text |-> <<>>, yielded |-> <<>>]]
    /\ st_out = <<>>

\* ------------------------------------- the adapter's input processing loop
\* the OutputMessage _handle_input_message puts when handling msg failed:
\* msg_type "error" and the session of msg, written as one string as the
\* other messages of the bridge are (a message stands for its own session
\* here; the content is the text of the exception)
ErrorOutput(msg) ==
    CASE msg = "a" -> "error for a"
      [] msg = "b" -> "error for b"

\* _process_input_messages leaving its loop after a message that failed
ProcessInput_fatal(fails) ==
    /\ adapter.pc = "get"
    /\ async_input_queue # <<>>
    /\ async_input_queue' = Tail(async_input_queue)
    /\ got_in' = Append(got_in, Head(async_input_queue))
    /\ IF fails
         THEN /\ async_output_queue' =
                     Append(async_output_queue,
                            ErrorOutput(Head(async_input_queue)))
              /\ put_out' =
                     Append(put_out, ErrorOutput(Head(async_input_queue)))
              /\ UNCHANGED committed
         ELSE /\ committed' = Append(committed, Head(async_input_queue))
              /\ UNCHANGED <<async_output_queue, put_out>>
    /\ outcomes' =
           Append(outcomes,
                  [msg |-> Head(async_input_queue),
                   kind |-> IF fails THEN "error" ELSE "event"])
    /\ adapter' =
           [adapter EXCEPT
               !.pc = IF adapter.running /\ ~fails THEN "get" ELSE "exited"]
    /\ UNCHANGED <<input_queue, output_queue, running, in_pc, out_pc, put_in,
                   got_out>>
    /\ NoPoll

\* _process_input_messages, one iteration: get_input returns the head of the
\* asyncio queue (the loop is suspended there while the queue is empty),
\* _handle_input_message builds the event and commits it, or, when building
\* it raised, puts an error message on the output side (unbounded queue:
\* the await does not suspend); then the loop test reads _running
ProcessInput(fails) ==
    /\ adapter.pc = "get"
    /\ async_input_queue # <<>>
    /\ async_input_queue' = Tail(async_input_queue)
    /\ got_in' = Append(got_in, Head(async_input_queue))
    /\ IF fails
         THEN /\ async_output_queue' =
                     Append(async_output_queue,
                            ErrorOutput(Head(async_input_queue)))
              /\ put_out' =
                     Append(put_out, ErrorOutput(Head(async_input_queue)))
              /\ UNCHANGED committed
         ELSE /\ committed' = Append(committed, Head(async_input_queue))
              /\ UNCHANGED <<async_output_queue, put_out>>
    /\ outcomes' =
           Append(outcomes,
                  [msg |-> Head(async_input_queue),
                   kind |-> IF fails THEN "error" ELSE "event"])
    /\ adapter' =
           [adapter EXCEPT
               !.pc = IF adapter.running THEN "get" ELSE "exited"]
    /\ UNCHANGED <<input_queue, output_queue, running, in_pc, out_pc, put_in,
                   got_out>>
    /\ NoPoll

\* terminate(): _running is cleared, then the two services are stopped,
\* which is awaited
TerminateBegin ==
    /\ adapter.terminate = "idle"
    /\ adapter' = [adapter EXCEPT !.running = FALSE, !.terminate = "services"]
    /\ UNCHANGED <<committed, outcomes>>

\* terminate(), after the services: bridge.stop(), the GUI is told to quit
\* and its thread joined
TerminateBridge ==
    /\ adapter.terminate = "services"
    /\ Stop
    /\ adapter' = [adapter EXCEPT !.terminate = "done"]
    /\ UNCHANGED <<committed, outcomes>>

\* the adapter inside the gather of _run: _running is set and
\* _process_input_messages waits for its first message
InitAdapter ==
    /\ adapter = [running |-> TRUE, pc |-> "get", terminate |-> "idle"]
    /\ committed = <<>>
    /\ outcomes = <<>>

\* --------------------------------------- the visibility of the windows
\* the text of the tray's toggle item: "hide floating ball" while the ball
\* counts as visible, "show floating ball" otherwise
ToggleText(visible) == IF visible THEN "hide ball" ELSE "show ball"

\* the ways the region selector ends
SelectorExits == {"selected", "cancelled", "failed"}

\* the argument the region selector passes to the completion callback
CallbackArgument(exit) == IF exit = "selected" THEN "path" ELSE None

\* what ScreenCaptureService.capture_full_screen_to_file does: it returns a
\* path or None, or raises
CaptureResults == {"path", None, "raises"}

NoFlow == [window |-> "none", outcome |-> "none"]

Flow(window, outcome) == [window |-> window, outcome |-> outcome]

\* SystemTrayManager._toggle_floating_ball, from the menu item or a single
\* click on the icon, with the callbacks DesktopClientApp gives it
ToggleFloatingBall ==
    /\ win' = [win EXCEPT !.ball_visible = ~win.ball_visible,
                          !.toggle_text = ToggleText(~win.ball_visible),
                          !.ball_shown = ~win.ball_visible]
    /\ win_obs' = NoFlow

\* DesktopClientApp._open_chat_window: the tray's double click or menu item,
\* the ball's double click or menu item
OpenChatWindow ==
    /\ win' = [win EXCEPT !.chat_shown = TRUE]
    /\ win_obs' = NoFlow

\* the hide item of the ball's context menu, which is connected to
\* QWidget.hide; the menu opens on the visible ball
BallHideAction ==
    /\ win.ball_shown
    /\ win' = [win EXCEPT !.ball_shown = FALSE]
    /\ win_obs' = NoFlow

\* FloatingBallWindow._on_region_screenshot and _on_full_screenshot, from
\* the context menu of the visible ball: the ball hides itself and a
\* single-shot timer of 100 ms is started, unless the import fails
BallScreenshotAction(kind, available) ==
    /\ win.ball_shown
    /\ win.ball_shot = "idle"
    /\ IF available
         THEN /\ win' = [win EXCEPT !.ball_shown = FALSE,
                                    !.ball_shot = kind,
                                    !.shot_started = TRUE]
              /\ win_obs' = NoFlow
         ELSE /\ win' = [win EXCEPT !.shot_started = TRUE]
              /\ win_obs' = Flow("ball", "unavailable")

\* _start_region_capture whose except branch only prints
StartRegionCapture_silent(raises) ==
    /\ win.ball_shot = "region_timer"
    /\ IF raises
         THEN /\ win' = [win EXCEPT !.ball_shot = "idle"]
              /\ win_obs' = Flow("ball", "raised")
         ELSE /\ win' = [win EXCEPT !.ball_shot = "selecting"]
              /\ win_obs' = NoFlow

\* FloatingBallWindow._start_region_capture, when the timer fires:
\* capture_async is started, or the ball is shown again when that raises
StartRegionCapture(raises) ==
    /\ win.ball_shot = "region_timer"
    /\ IF raises
         THEN /\ win' = [win EXCEPT !.ball_shot = "idle",
                                    !.ball_shown = TRUE]
              /\ win_obs' = Flow("ball", "raised")
         ELSE /\ win' = [win EXCEPT !.ball_shot = "selecting"]
              /\ win_obs' = NoFlow

\* FloatingBallWindow._on_screenshot_complete, the completion callback: the
\* ball is shown, and with a path _send_screenshot opens the chat window
OnScreenshotComplete(exit) ==
    /\ win.ball_shot = "selecting"
    /\ win' = [win EXCEPT
                  !.ball_shot = "idle",
                  !.ball_shown = TRUE,
                  !.chat_shown =
                      IF CallbackArgument(exit) # None THEN TRUE ELSE @]
    /\ win_obs' = Flow("ball", exit)

\* FloatingBallWindow._do_full_screenshot, when the timer fires: the ball
\* is shown after the capture and in the except branch
DoFullScreenshot(result) ==
    /\ win.ball_shot = "full_timer"
    /\ win' = [win EXCEPT
                  !.ball_shot = "idle",
                  !.ball_shown = TRUE,
                  !.chat_shown = IF result = "path" THEN TRUE ELSE @]
    /\ win_obs' =
           Flow("ball", CASE result = "path" -> "captured"
                          [] result = None -> "absent"
                          [] result = "raises" -> "raised")

\* ChatWindow._on_screenshot_button on the visible chat window: the window
\* hides itself and a single-shot timer is started; when the import fails
\* it takes a full-screen capture without hiding
OnScreenshotButton(available) ==
    /\ win.chat_shown
    /\ win.chat_shot = "idle"
    /\ IF available
         THEN /\ win' = [win EXCEPT !.chat_shown = FALSE,
                                    !.chat_shot = "region_timer",
                                    !.shot_started = TRUE]
              /\ win_obs' = NoFlow
         ELSE /\ win' = [win EXCEPT !.shot_started = TRUE]
              /\ win_obs' = Flow("chat", "unavailable")

\* ChatWindow._start_region_screenshot, when the timer fires
StartRegionScreenshot(raises) ==
    /\ win.chat_shot = "region_timer"
    /\ IF raises
         THEN /\ win' = [win EXCEPT !.chat_shot = "idle",
                                    !.chat_shown = TRUE]
              /\ win_obs' = Flow("chat", "raised")
         ELSE /\ win' = [win EXCEPT !.chat_shot = "selecting"]
              /\ win_obs' = NoFlow

\* ChatWindow._on_region_screenshot_complete, the completion callback
OnRegionScreenshotComplete(exit) ==
    /\ win.chat_shot = "selecting"
    /\ win' = [win EXCEPT !.chat_shot = "idle", !.chat_shown = TRUE]
    /\ win_obs' = Flow("chat", exit)

\* DesktopClientApp.start: the ball and the tray are shown, the chat window
\* is not
InitWindows ==
    /\ win = [ball_visible |-> TRUE, toggle_text |-> ToggleText(TRUE),
              ball_shown |-> TRUE, chat_shown |-> FALSE,
              ball_shot |-> "idle", chat_shot |-> "idle",
              shot_started |-> FALSE]
    /\ win_obs = NoFlow

\* ----------------------------------- start() of the standalone server
StartCalls == 1..MaxStartCalls

\* the is_running property
is_running == srv_running /\ launch.server # 0

\* start() from its entry to its first suspension: True at once when
\* _running is set, else the call awaits serve()
StartEnter(k) ==
    /\ launch.pc[k] = "idle"
    /\ launch' =
           [launch EXCEPT
               !.pc[k] = IF srv_running THEN "returned True" ELSE "serving"]
    /\ UNCHANGED srv_running

\* start() resumes from serve(): the listening socket was bound, _server
\* and _running are set and the call returns True; or serve() raised
\* OSError because the port is held by another program (free is false) or
\* by a listening socket of this server, and the call returns False
StartResume(k, free) ==
    /\ launch.pc[k] = "serving"
    /\ IF free /\ launch.open = 0
         THEN /\ launch' = [launch EXCEPT !.pc[k] = "returned True",
                                          !.server = k,
                                          !.open = @ + 1]
              /\ srv_running' = TRUE
         ELSE /\ launch' = [launch EXCEPT !.pc[k] = "returned False",
                                          !.blocked = @ \/ ~free]
              /\ UNCHANGED srv_running

\* stop() of a running server, as far as start() can see it: _running is
\* cleared, the listening socket closed and _server set to None
StopListening ==
    /\ srv_running
    /\ srv_running' = FALSE
    /\ launch' = [launch EXCEPT !.server = 0,
                                !.open = IF launch.server # 0 THEN @ - 1
                                         ELSE @]

\* the server after __init__, and no start() call made yet
InitLaunch ==
    launch = [pc |-> [k \in StartCalls |-> "idle"], server |-> 0,
              open |-> 0, blocked |-> FALSE]

Init ==
    InitCM /\ InitBridge /\ InitServer /\ InitFiles /\ InitMonitor
        /\ InitDialog /\ InitGreetings /\ InitBall /\ InitChat
        /\ InitSettings /\ InitRecorder /\ InitServices
        /\ InitWindowChange /\ InitIdle /\ InitStateFrames
        /\ InitStreaming /\ InitAdapter /\ InitWindows /\ InitLaunch

\* the screenshot request/response protocol and the connections it uses
Next ==
    /\ UNCHANGED <<brVars, bcVars, srvVars, fsVars, monVars, pdVars, sgVars, otherVars>>
    /\ \/ \E s \in Sessions : Connect(s)
       \/ \E s \in Sessions : HandlerExit(s)
       \/ \E s \in Sessions, request_id \in 0..UnknownId, p \in Payloads :
              \E save_ok \in IF WantsSave(p) THEN BOOLEAN ELSE {TRUE} :
                  Deliver(s, ResponseData(request_id, p), save_ok)
       \/ \E arg \in Sessions \cup {None} : RequestScreenshot(arg)
       \/ \E i \in RequestIds, ok \in BOOLEAN : SendDone(i, ok)
       \/ \E i \in RequestIds : Timeout(i)
       \/ \E i \in RequestIds : Cancel(i)
       \/ \E i \in RequestIds : ResumeResponse(i)
       \/ \E i \in RequestIds : ResumeTimeout(i)
       \/ \E i \in RequestIds : ResumeCancelled(i)

Spec == Init /\ [][Next]_vars

\* connections, telemetry and plain sends
NextConn ==
    /\ UNCHANGED <<brVars, srvVars, fsVars, monVars, pdVars, sgVars, otherVars>>
    /\ \/ (\E s \in Sessions : Connect(s)) /\ NoBroadcast
       \/ (\E s \in Sessions : HandlerExit(s)) /\ NoBroadcast
       \/ (\E s \in Sessions, title \in Titles, ok \in BOOLEAN :
              UpdateClientState(s, title, ok)) /\ NoBroadcast
       \/ (\E s \in Sessions, ok \in BOOLEAN : SendMessage(s, ok))
              /\ NoBroadcast
       \/ BroadcastStart
       \/ \E ok \in BOOLEAN : BroadcastSend(ok)

SpecConn == Init /\ [][NextConn]_vars

\* the standalone server, and the entry of the host-routed handler
NextServer ==
    /\ UNCHANGED <<brVars, bcVars, fsVars, monVars, pdVars, sgVars, otherVars>>
    /\ \/ UNCHANGED cmVars /\ \E ok \in BOOLEAN : ServerStart(ok)
       \/ UNCHANGED cmVars /\
             \E path \in Paths, raw_session \in RawSessions,
                raw_token \in RawTokens :
                  HandleConnection(path, raw_session, raw_token)
       \/ UNCHANGED cmVars /\
             \E c \in ConnIds, frame \in Frames : ReceiveFrame(c, frame)
       \/ UNCHANGED cmVars /\ \E c \in ConnIds : HandlerEnd(c)
       \/ UNCHANGED cmVars /\
             \E s \in Sessions, ok \in BOOLEAN : SendToClient(s, ok)
       \/ UNCHANGED cmVars /\ ServerBroadcastStart
       \/ UNCHANGED cmVars /\ \E ok \in BOOLEAN : ServerBroadcastSend(ok)
       \/ UNCHANGED cmVars /\ ServerStop
       \/ \E raw_session \in RawSessions, raw_token \in RawTokens :
              HandleWebsocket(raw_session, raw_token)
       \/ /\ \E s \in Sessions : HandlerExit(s)
          /\ UNCHANGED <<srv_running, connections, conn_pc, conn_session,
                         next_conn, cb_connect, cb_disconnect, skipped,
                         srv_bc>>
          /\ NoAttempt /\ NoRead /\ NoSrvSend

SpecServer == Init /\ [][NextServer]_vars

\* the screenshot store and its cleanup pass
NextFiles ==
    /\ UNCHANGED <<cmVars, brVars, bcVars, srvVars, monVars, pdVars, sgVars, otherVars>>
    /\ \/ \E max_count \in 0..MaxFiles, max_age_hours \in AgeHours :
              NewScreenshotManager(max_count, max_age_hours)
       \/ \E f \in FileNames : SaveScreenshot(f)
       \/ \E now \in Times : Tick(now)
       \/ \E order \in get_screenshot_files(fs_files),
             fail \in SUBSET DOMAIN fs_files : Cleanup(order, fail)

SpecFiles == Init /\ [][NextFiles]_vars

\* a step outside the monitor loop: no callback of the loop is invoked
NoMonitor ==
    /\ mon_calls' = <<>>
    /\ UNCHANGED <<mon_monitoring, mon_last_title, mon_last_state, mon_prev>>

\* a step outside the random loop: no cycle of the loop runs
NoDialog ==
    /\ pd_cycle' = NoCycle
    /\ UNCHANGED <<pd_running, pd_probability>>

\* the monitor loop and the random trigger loop that reads its last state
NextTriggers ==
    /\ UNCHANGED <<cmVars, brVars, bcVars, srvVars, fsVars, sgVars, otherVars>>
    /\ \/ MonitorStart /\ NoDialog
       \/ MonitorStop /\ NoDialog
       \/ (\E capture \in Captures : MonitorIteration(capture)) /\ NoDialog
       \/ DialogStart /\ NoMonitor
       \/ DialogStop /\ NoMonitor
       \/ (\E p \in Probabilities : SetProbability(p)) /\ NoMonitor
       \/ (\E draw \in Draws : RandomCycle(draw)) /\ NoMonitor

SpecTriggers == Init /\ [][NextTriggers]_vars

\* a step outside the scheduled loop: no scheduled check runs
NoTick ==
    /\ sg_tick' = NoCycle
    /\ UNCHANGED <<sg_greetings, sg_now, sg_next_id, sg_fired_on>>

\* the scheduled greeting loop, the clock and the greeting list
NextGreetings ==
    /\ UNCHANGED <<cmVars, brVars, bcVars, srvVars, fsVars, monVars, otherVars>>
    /\ \/ DialogStart /\ NoTick
       \/ DialogStop /\ NoTick
       \/ (\E now \in DateTimes : ClockAdvance(now)) /\ UNCHANGED pdVars
       \/ (\E time \in AddedTimes, enabled \in BOOLEAN :
                AddScheduledGreeting(time, enabled)) /\ UNCHANGED pdVars
       \/ (\E index \in 0..Len(sg_greetings) :
                RemoveScheduledGreeting(index)) /\ UNCHANGED pdVars
       \/ (\E raises \in BOOLEAN : ScheduledTick(raises))
             /\ UNCHANGED pdVars

SpecGreetings == Init /\ [][NextGreetings]_vars

\* the floating ball under mouse events and its click timer
NextBall ==
    /\ UNCHANGED <<coreVars, cwVars, swVars, arVars, svcVars, wcVars, idVars,
                   dsVars, stVars, flowVars>>
    /\ \/ \E button \in Buttons, g \in PointerPositions :
             MousePress(button, g)
       \/ \E g \in PointerPositions : MouseMove(g)
       \/ \E g \in PointerPositions : MouseRelease(g)
       \/ \E g \in PointerPositions : MouseDoubleClick(g)
       \/ \E d \in ElapseSteps : Elapse(d)
       \/ OnSingleClick

SpecBall == Init /\ [][NextBall]_vars

\* the chat window under the messages it is asked to show
NextChat ==
    /\ UNCHANGED <<coreVars, fbVars, swVars, arVars, svcVars, wcVars, idVars,
                   dsVars, stVars, flowVars>>
    /\ \/ \E msg \in OutputMessages : HandleOutputMessage(msg)
       \/ \E text \in Texts \ {<<>>} : SendTextMessage(text)

SpecChat == Init /\ [][NextChat]_vars

\* the settings dialog under edits and its buttons
NextSettings ==
    /\ UNCHANGED <<coreVars, fbVars, cwVars, arVars, svcVars, wcVars, idVars,
                   dsVars, stVars, flowVars>>
    /\ \/ \E min_interval \in MinIntervals, max_interval \in MaxIntervals :
             EditIntervals(min_interval, max_interval)
       \/ \E label \in AvatarFiles \cup {NotSet} : EditAvatar(label)
       \/ OnResetDefaults
       \/ \E raises \in BOOLEAN : OnSave(raises)

SpecSettings == Init /\ [][NextSettings]_vars

\* the audio recorder: its two calls and its capture threads
NextRecorder ==
    /\ UNCHANGED <<coreVars, fbVars, cwVars, swVars, svcVars, wcVars, idVars,
                   dsVars, stVars, flowVars>>
    /\ \/ StartRecording
       \/ \E save_to_file \in BOOLEAN, joined \in BOOLEAN :
             StopRecording(save_to_file, joined)
       \/ \E thread \in ThreadIds : RecordCallback(thread)
       \/ \E thread \in ThreadIds, error \in BOOLEAN :
             RecordThreadEnd(thread, error)

SpecRecorder == Init /\ [][NextRecorder]_vars

\* the two services with their tasks: start() and stop() step by step, and
\* the tasks scheduled in between. The adapter starts the dialogue service
\* after the monitor service and stops it before the monitor service.
NextServices ==
    /\ UNCHANGED <<cmVars, brVars, bcVars, srvVars, fsVars, sgVars, guiVars,
                   wcVars, idVars, dsVars, stVars, flowVars>>
    /\ \/ /\ MonitorStart
          /\ \E enabled \in SUBSET Optional["monitor"] :
                CreateTasks("monitor", enabled)
          /\ UNCHANGED pdVars
       \/ /\ MonitorStop
          /\ ~pd_running /\ ~svc["dialog"].stopping
          /\ StopBegin("monitor")
          /\ UNCHANGED pdVars
       \/ /\ DialogStart
          /\ mon_monitoring
          /\ \E enabled \in SUBSET Optional["dialog"] :
                CreateTasks("dialog", enabled)
          /\ UNCHANGED monVars
       \/ DialogStop /\ StopBegin("dialog") /\ UNCHANGED monVars
       \/ /\ \E s \in Services : StopAwait(s)
          /\ UNCHANGED <<monVars, pdVars>>
       \/ /\ \E s \in Services : StopReturn(s)
          /\ UNCHANGED <<monVars, pdVars>>
       \/ /\ \E task \in Tasks, raises \in BOOLEAN, calls \in BOOLEAN :
                TaskRun(task, raises, calls)
          /\ UNCHANGED <<monVars, pdVars>>
       \/ /\ \E task \in Tasks, raised \in BOOLEAN, more \in BOOLEAN :
                TaskCallbackReturn(task, raised, more)
          /\ UNCHANGED <<monVars, pdVars>>

SpecServices == Init /\ [][NextServices]_vars

\* the dialogue service started and stopped, its configuration updated,
\* time passing and window changes notified
NextWindowChange ==
    /\ UNCHANGED <<cmVars, brVars, bcVars, srvVars, fsVars, monVars, sgVars,
                   guiVars, svcVars, idVars, dsVars, stVars,
                   flowVars>>
    /\ \/ DialogStart /\ wc_obs' = NoCall /\ UNCHANGED <<pd_clock, wc>>
       \/ DialogStop /\ wc_obs' = NoCall /\ UNCHANGED <<pd_clock, wc>>
       \/ /\ \E d \in ClockSteps : ClockTick(d)
          /\ wc_obs' = NoCall
          /\ UNCHANGED <<pdVars, wc>>
       \/ (\E enabled \in BOOLEAN : UpdateConfig(enabled)) /\ UNCHANGED pdVars
       \/ (\E draw \in Draws : OnWindowChange(draw)) /\ UNCHANGED pdVars

SpecWindowChange == Init /\ [][NextWindowChange]_vars

\* the dialogue service with its idle strategy switched on, started once
\* and stopped, with time passing and activity recorded
NextIdle ==
    /\ UNCHANGED <<cmVars, brVars, bcVars, srvVars, fsVars, monVars, sgVars,
                   guiVars, svcVars, wc, wc_obs, dsVars, stVars,
                   flowVars>>
    /\ \/ DialogStart /\ IdleStart /\ UNCHANGED pd_clock
       \/ DialogStop /\ IdleStop /\ UNCHANGED pd_clock
       \/ /\ \E d \in ClockSteps : ClockTick(d)
          /\ idle_obs' = NoCheck
          /\ UNCHANGED <<pdVars, idle>>
       \/ RecordActivity /\ UNCHANGED <<pdVars, pd_clock>>
       \/ IdleCheck /\ UNCHANGED <<pdVars, pd_clock>>
       \/ IdleFireReturn /\ UNCHANGED <<pdVars, pd_clock>>

SpecIdle == Init /\ [][NextIdle]_vars

\* the host-routed handlers, one per session, with their desktop_state
\* frames taken step by step
NextStateFrames ==
    /\ UNCHANGED <<brVars, srvVars, fsVars, monVars, pdVars, sgVars, guiVars,
                   svcVars, wcVars, idVars, stVars, flowVars>>
    /\ \/ \E registered \in BOOLEAN : SetStateCallback(registered)
       \/ \E s \in Sessions : ConnectHandler(s)
       \/ \E s \in Sessions : ReceiveRaises(s)
       \/ \E s \in Sessions, data \in StateData : DesktopStateFrame(s, data)
       \/ \E s \in Sessions, raised \in BOOLEAN :
             DesktopStateCallbackReturn(s, raised)
       \/ \E s \in Sessions, ok \in BOOLEAN : DesktopStateAck(s, ok)
    /\ NoBroadcast

SpecStateFrames == Init /\ [][NextStateFrames]_vars

\* two streaming replies sent at the same time
NextStreaming ==
    /\ UNCHANGED <<coreVars, guiVars, svcVars, wcVars, idVars, dsVars,
                   flowVars>>
    /\ \/ \E r \in Replies, chain \in Chains : StreamChunk(r, chain)
       \/ \E r \in Replies : StreamEnd(r)
       \/ \E r \in Replies : StreamRaise(r)

SpecStreaming == Init /\ [][NextStreaming]_vars

BridgeInput ==
    BridgeInputForward \/ BridgeInputSleep \/ BridgeInputWake
        \/ BridgeInputExit

BridgeOutput ==
    BridgeOutputGet \/ BridgeOutputWake \/ BridgeOutputTimeout
        \/ BridgeOutputExit

NextBridge ==
    /\ UNCHANGED <<cmVars, bcVars, srvVars, fsVars, monVars, pdVars, sgVars, otherVars>>
    /\ \/ \E m \in Msgs : PutInput(m)
       \/ BridgeInput
       \/ GetInput
       \/ \E m \in Msgs : PutOutput(m)
       \/ BridgeOutput
       \/ GetOutput
       \/ Stop

SpecBridge == Init /\ [][NextBridge]_vars

\* the windows of the desktop client under the tray, the menus and the
\* screenshot actions
BallTimer ==
    \/ \E raises \in BOOLEAN : StartRegionCapture(raises)
    \/ \E result \in CaptureResults : DoFullScreenshot(result)

ChatTimer == \E raises \in BOOLEAN : StartRegionScreenshot(raises)

BallSelectorCallback == \E exit \in SelectorExits : OnScreenshotComplete(exit)

ChatSelectorCallback ==
    \E exit \in SelectorExits : OnRegionScreenshotComplete(exit)

WindowsRest == UNCHANGED <<coreVars, partVars, adVars, ssVars>>

NextWindows ==
    /\ WindowsRest
    /\ \/ ToggleFloatingBall
       \/ OpenChatWindow
       \/ BallHideAction
       \/ \E kind \in {"region_timer", "full_timer"}, available \in BOOLEAN :
             BallScreenshotAction(kind, available)
       \/ \E available \in BOOLEAN : OnScreenshotButton(available)
       \/ BallTimer
       \/ ChatTimer
       \/ BallSelectorCallback
       \/ ChatSelectorCallback

SpecWindows == Init /\ [][NextWindows]_vars

\* a single-shot timer fires after its 100 ms, and each selector calls its
\* completion callback on every way it ends
LiveWindows ==
    /\ SpecWindows
    /\ WF_vars(BallTimer /\ WindowsRest)
    /\ WF_vars(ChatTimer /\ WindowsRest)
    /\ WF_vars(BallSelectorCallback /\ WindowsRest)
    /\ WF_vars(ChatSelectorCallback /\ WindowsRest)

\* start() calls on one standalone server, each taken from suspension
\* point to suspension point, and stop()
NextLaunch ==
    /\ UNCHANGED <<cmVars, brVars, bcVars, fsVars, monVars, pdVars, sgVars,
                   partVars, adVars, winVars>>
    /\ UNCHANGED <<connections, conn_pc, conn_session, next_conn, cb_connect,
                   cb_disconnect, skipped, srv_bc, arrival, closed, handled,
                   srv_sent>>
    /\ \/ \E k \in StartCalls : StartEnter(k)
       \/ \E k \in StartCalls, free \in BOOLEAN : StartResume(k, free)
       \/ StopListening

SpecLaunch == Init /\ [][NextLaunch]_vars

\* the event loop runs each forwarding loop when it is ready: a sleep and a
\* wait_for end after their time
LiveStop ==
    SpecBridge /\ WF_vars(BridgeInput /\ UNCHANGED <<cmVars, bcVars, srvVars, fsVars, monVars, pdVars, sgVars, otherVars>>)
               /\ WF_vars(BridgeOutput /\ UNCHANGED <<cmVars, bcVars, srvVars, fsVars, monVars, pdVars, sgVars, otherVars>>)

\* the adapter between _run and terminate(): the GUI thread puts input and
\* polls output, the bridge forwards, the input loop processes
AdapterRest ==
    UNCHANGED <<cmVars, bcVars, srvVars, fsVars, monVars, pdVars, sgVars,
                partVars, winVars, ssVars>>

NextAdapter ==
    /\ AdapterRest
    /\ \/ (\E m \in Msgs : PutInput(m)) /\ UNCHANGED adVars
       \/ BridgeInput /\ UNCHANGED adVars
       \/ BridgeOutput /\ UNCHANGED adVars
       \/ GetOutput /\ UNCHANGED adVars
       \/ \E fails \in BOOLEAN : ProcessInput(fails)
       \/ TerminateBegin /\ UNCHANGED brVars
       \/ TerminateBridge

SpecAdapter == Init /\ [][NextAdapter]_vars

\* the event loop runs every task that is ready: the forwarding loops after
\* their sleep or wait_for, the input loop when its queue holds a message,
\* terminate() when the services it awaits have stopped
LiveAdapter ==
    /\ SpecAdapter
    /\ WF_vars(BridgeInput /\ UNCHANGED adVars /\ AdapterRest)
    /\ WF_vars(BridgeOutput /\ UNCHANGED adVars /\ AdapterRest)
    /\ WF_vars((\E fails \in BOOLEAN : ProcessInput(fails)) /\ AdapterRest)
    /\ WF_vars(TerminateBridge /\ AdapterRest)

\* the event loop runs a ready task, and the GUI timer fires every 50 ms
LiveBridge ==
    SpecBridge /\ WF_vars(BridgeOutput /\ UNCHANGED <<cmVars, bcVars, srvVars, fsVars, monVars, pdVars, sgVars, otherVars>>)
               /\ WF_vars(GetOutput /\ UNCHANGED <<cmVars, bcVars, srvVars, fsVars, monVars, pdVars, sgVars, otherVars>>)

\* -------------------------------------------------------------- properties
InFlight(i) == pc[i] \in {"sending", "waiting", "timedout", "cancelling"}

\* the responses handle_screenshot_response can build for request id i
ResponsesFor(i) ==
    {ScreenshotResponse(i, s, p.success, p.image_base64, path,
                        p.error_message) :
        s \in Sessions, p \in Payloads, path \in {None, FilePath(i)}}

\* C1: a response frame resolves the future registered under the frame's
\* request_id and no other: the future of id i goes from unresolved to
\* resolved only in a step in which handle_screenshot_response returned a
\* response, the stored result carries request_id i and the frame's success
\* flag, error message and image, and every other table entry is untouched;
\* and a call whose future is resolved leaves its wait only by returning
\* exactly that stored response (or by being cancelled).
C1_Correlation ==
    [][\A i \in RequestIds :
         /\ (/\ i \in DOMAIN futures
             /\ futures[i].state = "pending"
             /\ i \in DOMAIN futures'
             /\ futures'[i].state = "done")
            => /\ futures'[i].result \in ResponsesFor(i)
               /\ last_ret' = SomeResponse(futures'[i].result)
               /\ futures' = Put(futures, i, futures'[i])
               /\ pending' = pending
         /\ (/\ i \in DOMAIN futures
             /\ futures[i].state = "done"
             /\ pc[i] # "cancelling"
             /\ pc'[i] # pc[i])
            => \/ pc'[i] = "cancelling"
               \/ /\ pc'[i] = "done"
                  /\ returned' = [call |-> i, value |-> futures[i].result]
    ]_vars

\* two requests pending at once; the first returned its screenshot while the
\* second still waits
C1_Witness ==
    /\ returned.call = 1
    /\ returned.value.kind = "response"
    /\ returned.value.success
    /\ returned.value.request_id = 1
    /\ 2 \in DOMAIN futures
    /\ futures[2].state = "pending"

\* C2: the pending-request table and the futures table hold only ids of calls
\* that are in flight: once a call has ended (by response, timeout or
\* cancellation) its id is in neither, and with no call in flight both are
\* empty.
C2_NoLeak ==
    /\ \A i \in DOMAIN pending \cup DOMAIN futures :
          i \in RequestIds /\ InFlight(i)
    /\ (\A i \in RequestIds : ~InFlight(i))
          => pending = EmptyDict /\ futures = EmptyDict

\* a cancelled call has just ended while another request is still pending
C2_Witness ==
    /\ returned = [call |-> 1, value |-> Cancelled]
    /\ pc[1] = "done"
    /\ 1 \notin DOMAIN pending \cup DOMAIN futures
    /\ 2 \in DOMAIN pending

\* C3: a future that holds a result keeps that result under every later
\* delivery for as long as it is in the table, and when it leaves the table
\* its call returns that result (unless the call was cancelled): at most one
\* resolution per request id, and the first response delivered wins.
C3_ResolveOnce ==
    [][\A i \in DOMAIN futures :
         futures[i].state = "done"
            => IF i \in DOMAIN futures'
                 THEN futures'[i] = futures[i]
                 ELSE /\ returned'.call = i
                      /\ returned'.value \in {futures[i].result, Cancelled}
    ]_vars

\* the only request ever issued is resolved with one response and a second
\* response, with the other success flag, has just been delivered for it
C3_Witness ==
    /\ next_id = 2
    /\ 1 \in DOMAIN futures
    /\ futures[1].state = "done"
    /\ last_ret.kind = "response"
    /\ last_ret.success # futures[1].result.success

C5_ImmediateFailure ==
    [][/\ next_id' # next_id
          => /\ next_id' = next_id + 1
             /\ next_id \in DOMAIN pending' /\ next_id \in DOMAIN futures'
             /\ pending'[next_id].session_id \in Range(active_connections)
             /\ sent' = <<Frame(pending'[next_id].session_id, "command")>>
       /\ (returned'.call = EmptyId /\ returned' # NotReturned)
          => /\ returned'.value.kind = "response"
             /\ ~returned'.value.success
             /\ returned'.value.request_id = EmptyId
             /\ \/ /\ returned'.value.error_message = ErrNoClients
                   /\ active_connections = <<>>
                \/ /\ returned'.value.error_message = ErrNotConnected
                   /\ returned'.value.session_id
                         \notin Range(active_connections)
             /\ sent' = <<>>
             /\ UNCHANGED <<next_id, pending, futures, pc,
                            active_connections>>
    ]_vars

\* a call naming a session that is not connected has just failed while
\* another session is connected
C5_Witness ==
    /\ returned.call = EmptyId
    /\ returned.value.kind = "response"
    /\ returned.value.error_message = ErrNotConnected
    /\ active_connections # <<>>

\* C6: in every state, a frame whose request_id is not in the futures table
\* (missing, never issued, or of a call that has ended) makes
\* handle_screenshot_response return None with the table and the files
\* unchanged; and a step in which it returned None leaves the tables, the
\* connections, the cached client states and the files as they were.
C6_UnknownDropped ==
    /\ [](\A s \in Sessions, request_id \in 0..UnknownId, p \in Payloads,
             save_ok \in BOOLEAN :
             request_id \notin DOMAIN futures
                => handle_screenshot_response(futures, files, s,
                       ResponseData(request_id, p), save_ok)
                   = [futures |-> futures, files |-> files, ret |-> NoResult])
    /\ [][last_ret' = NoResult
             => UNCHANGED <<active_connections, handlers, client_states,
                            pending, futures, next_id, pc, files>>]_vars

\* a frame has just been dropped while one request has ended and another is
\* pending
C6_Witness ==
    /\ last_ret = NoResult
    /\ pc[1] = "done"
    /\ 2 \in DOMAIN futures
    /\ futures[2].state = "pending"

\* C10: a plain send_message makes one send_json call, to a session that is
\* connected, and changes nothing but the connection table, from which a
\* failed send removes that session and no other; and a session leaves the
\* connection table only when its handler ends or a send to it (by
\* send_message or by broadcast) fails.
C10_SendMessage ==
    [][\A s \in Sessions :
         /\ (Frame(s, "message") \in Range(sent'))
            => /\ sent' = <<Frame(s, "message")>>
               /\ s \in Range(active_connections)
               /\ active_connections' \in
                     {active_connections, Remove(active_connections, s)}
               /\ UNCHANGED <<handlers, client_states, pending, futures,
                              next_id, pc, files>>
         /\ (s \in Range(active_connections)
                /\ s \notin Range(active_connections'))
            => /\ active_connections' = Remove(active_connections, s)
               /\ \/ handlers' = handlers \ {s}
                  \/ sent' = <<Frame(s, "message")>>
                  \/ sent' = <<Frame(s, "broadcast")>>
    ]_vars

\* a send to s1 has just failed: s1 is deregistered, its handler still runs,
\* and s2 is still connected
C10_Witness ==
    /\ sent = <<Frame("s1", "message")>>
    /\ "s1" \notin Range(active_connections)
    /\ "s1" \in handlers
    /\ "s2" \in Range(active_connections)

\* C7: the messages get_input has returned, followed by those in the asyncio
\* input queue, followed by those in the thread-safe input queue, are exactly
\* the messages put_input was given, in order: get_input yields the messages
\* put in, in the same order, each once.
C7_InputFifo ==
    /\ put_in = got_in \o async_input_queue \o input_queue
    /\ IsPrefix(got_in, put_in)

\* two different messages were put in and both were read, in that order,
\* through the forwarding loop
C7_Witness ==
    /\ Len(put_in) = MaxMsgs
    /\ put_in[1] # put_in[2]
    /\ got_in = put_in
    /\ in_pc = "sleep"

\* C8: the messages get_output has returned are a prefix of the messages
\* put_output was given, and the rest are, in order, in the thread-safe
\* output queue and then the asyncio output queue; a wait that times out
\* takes nothing.
C8_OutputPrefix ==
    /\ IsPrefix(got_out, put_out)
    /\ put_out = got_out \o output_queue \o async_output_queue

\* a message was delivered, the forwarding loop then timed out on the empty
\* queue and waits again, and a second, different message has been put
C8_Witness ==
    /\ Len(got_out) = 1
    /\ Len(put_out) = MaxMsgs
    /\ put_out[1] # put_out[2]
    /\ out_pc = "waiting"
    /\ async_output_queue # <<>>

\* C9: with the forwarding loop and the GUI poll scheduled fairly, the k-th
\* message given to put_output is eventually returned by get_output unless
\* the bridge is stopped first; get_output can always be called, and called
\* on an empty queue it returns None and delivers nothing.
C9_OutputLive ==
    /\ \A k \in 1..MaxMsgs :
          (Len(put_out) >= k) ~> (Len(got_out) >= k \/ ~running)
    /\ [][(output_queue = <<>> /\ last_poll' # NotPolled)
             => (last_poll' = None /\ got_out' = got_out)]_vars
    /\ [][(output_queue # <<>> /\ last_poll' # NotPolled)
             => (last_poll' = Head(output_queue)
                 /\ got_out' = Append(got_out, last_poll'))]_vars

\* the bridge still runs, every message put out has been delivered, and the
\* last poll found the queue empty
C9_Witness ==
    /\ running
    /\ Len(put_out) = MaxMsgs
    /\ got_out = put_out
    /\ last_poll = None

\* C11: broadcast sends once to each session of the connection table as it
\* was at the call, in order, whether or not earlier sends failed, and each
\* failed send removes that session; when it returns, if no other operation
\* changed the table meanwhile, the table holds exactly the sessions whose
\* send succeeded.
C11_Broadcast ==
    [][/\ (bc_pc = "sending" /\ bc_sent' # bc_sent)
          => /\ Len(bc_sent) < Len(bc_snapshot)
             /\ bc_sent' = Append(bc_sent, bc_snapshot[Len(bc_sent) + 1])
             /\ sent' = <<Frame(bc_snapshot[Len(bc_sent) + 1], "broadcast")>>
             /\ active_connections' \in
                   {active_connections,
                    Remove(active_connections,
                           bc_snapshot[Len(bc_sent) + 1])}
       /\ (bc_pc' = "idle" /\ (bc_pc = "sending" \/ bc_snapshot' # bc_snapshot
                                  \/ bc_sent' # bc_sent))
          => /\ bc_sent' = bc_snapshot'
             /\ bc_clean'
                   => Range(active_connections')
                         = Range(bc_snapshot') \ bc_failed'
    ]_vars

\* a broadcast to two sessions has returned undisturbed: the send to s1
\* failed, the send to s2 was still made, and only s2 is registered
C11_Witness ==
    /\ bc_pc = "idle"
    /\ bc_sent = <<"s1", "s2">>
    /\ bc_failed = {"s1"}
    /\ bc_clean
    /\ active_connections = <<"s2">>
    /\ sent = <<Frame("s2", "broadcast")>>

\* C12: when send_to_client is called for a session that is in the server's
\* table and the transport send fails, the session is removed from the
\* table.
C12_SendToClientDrops ==
    [][(/\ srv_sent'.op = "send_to_client"
        /\ srv_sent'.session \in DOMAIN connections
        /\ ~srv_sent'.ok)
          => srv_sent'.session \notin DOMAIN connections'
    ]_vars

LacksParams(a) ==
    \/ Falsy(a.session_id)
    \/ Falsy(a.token)
    \/ a.server = "standalone" /\ a.path \notin {"/ws/client", "/", ""}

\* C14: a connection attempt that lacks session_id or token, at either
\* server, or targets an unsupported path at the standalone server, is
\* closed with 1008 in the step that handles it, which enters nothing in
\* either connection table and calls no callback; a rejected websocket is
\* never in the table, has no callback called for it, and no frame is read
\* from it.
C14_Rejected ==
    /\ [](\A c \in ConnIds :
            conn_pc[c] = "rejected"
               => /\ \A s \in DOMAIN connections : connections[s] # c
                  /\ cb_connect[c] = 0 /\ cb_disconnect[c] = 0)
    /\ [][/\ (arrival' # NoArrival /\ LacksParams(arrival'))
             => /\ closed' = PolicyViolation
                /\ UNCHANGED <<connections, cb_connect, cb_disconnect,
                               active_connections, handlers>>
                /\ handled' = NoFrame
                /\ arrival'.server = "standalone"
                      => conn_pc'[next_conn] = "rejected"
          /\ handled' # NoFrame => conn_pc[handled'.conn] = "loop"
         ]_vars

\* with websocket 1 accepted, an attempt on the standard path that carries
\* a session_id but no token has just been closed with 1008
C14_Witness ==
    /\ closed = PolicyViolation
    /\ arrival.server = "standalone"
    /\ arrival.path = "/ws/client"
    /\ arrival.session_id = "s1"
    /\ arrival.token = None
    /\ conn_pc[1] = "loop"
    /\ conn_pc[2] = "rejected"

\* C15: a frame read by the standalone server's receive loop is handled in
\* the step that reads it: a message is passed to on_message, a heartbeat is
\* acknowledged, and text that is not JSON or whose handling raises is
\* skipped; in every case the websocket stays in its loop, the table and
\* the callback counts are unchanged, so the frames that follow are read and
\* dispatched one by one in the order the loop reads them.
C15_BadFrameSkipped ==
    [][handled' # NoFrame
          => /\ conn_pc[handled'.conn] = "loop"
             /\ conn_pc' = conn_pc
             /\ connections' = connections
             /\ cb_connect' = cb_connect
             /\ cb_disconnect' = cb_disconnect
             /\ handled'.how =
                   CASE handled'.frame = "data" -> "callback"
                     [] handled'.frame = "heartbeat" -> "ack"
                     [] OTHER -> "skipped"
    ]_vars

\* after a frame was skipped on websocket 1, a message read on the same
\* websocket has just been passed to on_message, and s1 is still registered
C15_Witness ==
    /\ 1 \in skipped
    /\ handled = [conn |-> 1, frame |-> "data", how |-> "callback"]
    /\ "s1" \in DOMAIN connections
    /\ connections["s1"] = 1

\* the number of files of fm strictly newer than f
Newer(fm, f) == Cardinality({g \in DOMAIN fm : fm[g] > fm[f]})

\* C16: a cleanup pass over N files with distinct modification times, none
\* older than max_age_hours, in which no deletion fails, leaves exactly the
\* max_count newest files when N > max_count (the N - max_count oldest are
\* removed) and every file when N <= max_count.
C16_CountRule ==
    [][(/\ fs_pass'.ran
        /\ ~fs_pass'.errors
        /\ \A f, g \in DOMAIN fs_files : f # g => fs_files[f] # fs_files[g]
        /\ \A f \in DOMAIN fs_files :
              fs_now - fs_files[f]
                 <= fs_config.max_age_hours * SecondsPerHour)
          => LET N == Cardinality(DOMAIN fs_files)
                 k == fs_config.max_count
             IN  /\ DOMAIN fs_files' =
                       {f \in DOMAIN fs_files : Newer(fs_files, f) < k}
                 /\ \A f \in DOMAIN fs_files' : fs_files'[f] = fs_files[f]
                 /\ N > k => Cardinality(DOMAIN fs_files \ DOMAIN fs_files')
                                = N - k
                 /\ N <= k => fs_files' = fs_files
    ]_vars

\* a pass with max_count 1 has just removed the two oldest of three young
\* files with distinct times
C16_Witness ==
    /\ fs_pass.ran
    /\ ~fs_pass.errors
    /\ fs_config.max_count = 1
    /\ Cardinality(DOMAIN fs_pass.found) = MaxFiles
    /\ \A f, g \in DOMAIN fs_pass.found :
          f # g => fs_pass.found[f] # fs_pass.found[g]
    /\ \A f \in DOMAIN fs_pass.found :
          fs_pass.time - fs_pass.found[f]
             <= fs_config.max_age_hours * SecondsPerHour
    /\ Cardinality(DOMAIN fs_files) = 1

\* C17: after a cleanup pass in which no deletion fails, with the files'
\* modification times distinct, the files that remain are exactly the files
\* among the max_count newest whose age is at most max_age_hours: a file
\* among the max_count newest is removed exactly when its age exceeds the
\* limit.
C17_AgeRule ==
    [][(/\ fs_pass'.ran
        /\ ~fs_pass'.errors
        /\ \A f, g \in DOMAIN fs_files : f # g => fs_files[f] # fs_files[g])
          => /\ DOMAIN fs_files' =
                   {f \in DOMAIN fs_files :
                       /\ Newer(fs_files, f) < fs_config.max_count
                       /\ fs_now - fs_files[f]
                             <= fs_config.max_age_hours * SecondsPerHour}
             /\ \A f \in DOMAIN fs_files' : fs_files'[f] = fs_files[f]
    ]_vars

\* with max_count above the number of files and a limit of one hour, a pass
\* has just removed a file one second older than the limit and kept a file
\* exactly as old as the limit
C17_Witness ==
    /\ fs_pass.ran
    /\ ~fs_pass.errors
    /\ fs_config.max_count = MaxFiles
    /\ fs_config.max_age_hours = 1
    /\ \E f, g \in DOMAIN fs_pass.found :
          /\ fs_pass.time - fs_pass.found[f] = SecondsPerHour + 1
          /\ fs_pass.time - fs_pass.found[g] = SecondsPerHour
          /\ f \notin DOMAIN fs_files
          /\ g \in DOMAIN fs_files

\* C18: when the monitor loop captures a state with title t2 and its last
\* successful capture had title t1: if t1 # t2 the state has window_changed
\* true and previous_window t1, and on_window_change is called with it and
\* then on_state_change; if t1 = t2 the state has window_changed false and
\* only on_state_change is called.
C18_WindowChange ==
    [][(mon_calls' # <<>> /\ mon_prev # NoCapture)
          => LET t1 == mon_prev
                 t2 == mon_prev'
             IN  IF t1 # t2
                   THEN mon_calls' =
                          <<[callback |-> "on_window_change",
                             state |-> DesktopState(t2, t1, TRUE)],
                            [callback |-> "on_state_change",
                             state |-> DesktopState(t2, t1, TRUE)]>>
                   ELSE /\ Len(mon_calls') = 1
                        /\ mon_calls'[1].callback = "on_state_change"
                        /\ mon_calls'[1].state.window_title = t2
                        /\ ~mon_calls'[1].state.window_changed
    ]_vars

\* title B has just been captured right after title A
C18_Witness ==
    /\ Len(mon_calls) = 2
    /\ mon_calls[1].callback = "on_window_change"
    /\ mon_calls[1].state = DesktopState("B", "A", TRUE)
    /\ mon_last_title = "B"

\* C19: in every cycle of the random loop, whatever the draw in [0, 1): with
\* random_probability 0.0 no trigger is fired, and with random_probability
\* 1.0 a random-type trigger is fired.
C19_RandomGate ==
    [][pd_cycle'.ran
          => /\ pd_probability = 0 => ~pd_cycle'.fired
             /\ pd_probability = Tenths
                   => pd_cycle'.fired /\ pd_cycle'.trigger_type = "random"
    ]_vars

\* the time of day of now is within one minute of the greeting's time
InWindow(greeting, now) ==
    LET g == greeting.time.hour * 60 + greeting.time.minute
        n == now.hour * 60 + now.minute
    IN  g - n \in {-1, 0, 1}

\* C20: in every scheduled check, a greeting is fired only if it is enabled
\* and no trigger was fired for it earlier on the same calendar day, whether
\* or not the callback raised then; a greeting whose last_triggered date is
\* today is skipped; and an enabled greeting last triggered on an earlier day
\* is fired when the check falls inside its window.
C20_OncePerDay ==
    [][sg_tick'.ran
          => \A i \in DOMAIN sg_greetings :
                LET g == sg_greetings[i]
                    today == sg_now.day
                    fires == g.id \in Range(sg_tick'.fired)
                IN  /\ fires => g.enabled /\ today \notin sg_fired_on[g.id]
                    /\ (g.last_triggered # NoTime
                           /\ g.last_triggered.day = today) => ~fires
                    /\ (g.enabled /\ InWindow(g, sg_now)
                           /\ g.last_triggered # NoTime
                           /\ g.last_triggered.day < today) => fires
    ]_vars

\* a greeting has fired on two days, and a later check inside its window on
\* the second day has skipped it
C20_Witness ==
    \E i \in DOMAIN sg_greetings :
        /\ sg_fired_on[sg_greetings[i].id] = {1, 2}
        /\ sg_now.day = 2
        /\ InWindow(sg_greetings[i], sg_now)
        /\ sg_tick.ran
        /\ sg_tick.fired = <<>>

\* C21: after a left press and release with less than 5 pixels of movement
\* and no later left-button event, no click action happens while the 250 ms
\* run and exactly one single-click action and no double-click action has
\* happened once they have elapsed; when a double click arrives within the
\* 250 ms, exactly one double-click action has happened and no single-click
\* action happens then or later.
C21_ClickOrDoubleClick ==
    /\ ball_obs.kind = "click" /\ ball.click_timer # Inactive
          => ball_obs.clicks = 0 /\ ball_obs.dclicks = 0
    /\ ball_obs.kind = "click" /\ ball.click_timer = Inactive
          => ball_obs.clicks = 1 /\ ball_obs.dclicks = 0
    /\ ball_obs.kind = "double"
          => /\ ball_obs.clicks = 0 /\ ball_obs.dclicks = 1
             /\ ball.click_timer = Inactive /\ ~ball.pending_click

\* a double click has been delivered within the 250 ms and released
C21_Witness ==
    /\ ball_obs.kind = "double"
    /\ ball_obs.last_event = "dclick_release"
    /\ ball_obs.dclicks = 1

\* C22: the streaming chunks shown since the last end marker are in exactly
\* one bubble, created by the first of them, whose text is their
\* concatenation; the end marker resets the accumulator and changes no
\* bubble; every later text, streaming or not, is put in a new bubble; and no
\* step changes a bubble other than the streaming one.
C22_StreamingBubble ==
    /\ [](IF chat.streaming_message = NoBubble
            THEN chat_obs.chunks = 0
            ELSE /\ chat_obs.chunks > 0
                 /\ chat.streaming_message \in 1..Len(chat.layout)
                 /\ chat.layout[chat.streaming_message] =
                       Widget("text", chat_obs.expected, FALSE))
    /\ [][LET msg == chat_obs'.last
              old == Len(chat.layout)
          IN  /\ Len(chat'.layout) >= old
              /\ \A i \in 1..old :
                    i # chat.streaming_message
                       => chat'.layout[i] = chat.layout[i]
              /\ msg.type = "end"
                    => /\ chat'.layout = chat.layout
                       /\ chat'.streaming_message = NoBubble
                       /\ chat'.streaming_text = <<>>
              /\ msg.type = "text" /\ msg.streaming
                    => IF chat_obs.chunks = 0
                         THEN /\ Len(chat'.layout) = old + 1
                              /\ chat'.streaming_message = old + 1
                              /\ chat'.layout[old + 1].content = msg.content
                         ELSE /\ Len(chat'.layout) = old
                              /\ chat'.streaming_message =
                                    chat.streaming_message
              /\ msg.type = "text" /\ ~msg.streaming
                    => chat'.layout =
                          Append(chat.layout,
                                 Widget("text", msg.content, FALSE))
       ]_vars

\* two chunks have been shown in one bubble and ended, and the next text
\* has a bubble of its own
C22_Witness ==
    /\ Len(chat.layout) = 2
    /\ chat.layout[1] = Widget("text", <<"x", "y">>, FALSE)
    /\ chat.layout[2] = Widget("text", <<"x">>, FALSE)
    /\ chat.streaming_message = NoBubble

\* C23: a Save with proactive_min_interval >= proactive_max_interval leaves
\* the stored configuration unchanged, emits no signal, calls no callback
\* and does not accept the dialog; a Save with min < max replaces the
\* configuration by the edited snapshot and emits the signal once and calls
\* the callback once, both with that dict.
C23_SaveValidation ==
    [][settings_obs'.op = "save"
          => LET ui == settings.ui
                 snapshot ==
                     [proactive_min_interval |-> ui.min_spin,
                      proactive_max_interval |-> ui.max_spin,
                      avatar_path |-> IF ui.avatar_label = NotSet THEN ""
                                      ELSE ui.avatar_label]
             IN  IF ui.min_spin >= ui.max_spin
                   THEN /\ settings'.config = settings.config
                        /\ settings_obs'.emitted = <<>>
                        /\ settings_obs'.called = <<>>
                        /\ ~settings_obs'.accepted
                   ELSE /\ settings'.config = snapshot
                        /\ settings_obs'.emitted = <<snapshot>>
                        /\ settings_obs'.called = <<snapshot>>
    ]_vars

\* a Save with equal intervals has just been refused, the stored
\* configuration differing from what the widgets hold
C23_Witness ==
    /\ settings_obs.op = "save"
    /\ settings_obs.warned
    /\ settings.ui.min_spin = 300 /\ settings.ui.max_spin = 300
    /\ settings.config.proactive_max_interval = 120

\* C24: with Recording meaning that _is_recording is set: start_recording
\* while Recording returns false and leaves the buffer, the start time and
\* the thread as they are; while Idle it returns true and enters Recording
\* with an empty buffer; stop_recording while Idle returns None and changes
\* nothing; while Recording it leaves the recorder Idle.
C24_RecorderStates ==
    [][/\ rec_obs'.op = "start_recording"
          => IF recorder.is_recording
               THEN /\ rec_obs'.ret = FALSE
                    /\ recorder' = recorder
                    /\ rec_threads' = rec_threads
               ELSE /\ rec_obs'.ret = TRUE
                    /\ recorder'.is_recording
                    /\ recorder'.recorded_data = <<>>
       /\ rec_obs'.op = "stop_recording"
          => IF recorder.is_recording
               THEN ~recorder'.is_recording
               ELSE /\ rec_obs'.ret = None
                    /\ recorder' = recorder
                    /\ rec_threads' = rec_threads
    ]_vars

\* start_recording has just been refused during a recording that has
\* frames buffered
C24_Witness ==
    /\ rec_obs.op = "start_recording"
    /\ rec_obs.ret = FALSE
    /\ recorder.is_recording
    /\ recorder.recorded_data # <<>>

C26_LoopsSurvive ==
    [][svc_obs'.op = "task" /\ svc_obs'.raised
          /\ Flag(Owner(svc_obs'.task))
             => tasks'[svc_obs'.task] \in {"sleep", "callback"}]_vars

\* the trigger callback of the random loop has raised while the service is
\* running and the loop sleeps until its next iteration
C26_Witness ==
    /\ svc_obs = SvcLabel("task", "random_loop", {}, TRUE)
    /\ tasks["random_loop"] = "sleep"
    /\ pd_running

\* C27: a call of _on_window_change that fires a window trigger comes at
\* least the cooldown after the previous window trigger, and stores its own
\* timestamp; a call that does not fire, whether the service is stopped, the
\* strategy switched off, the cooldown running or the draw above the
\* probability, leaves _last_window_change_trigger as it was.
C27_WindowCooldown ==
    [][wc_obs'.called
          => /\ wc_obs'.fired
                   => /\ wc_obs'.previous # NoTrigger
                         => wc_obs'.timestamp - wc_obs'.previous >= Cooldown
                      /\ wc'.last_window_change_trigger = wc_obs'.timestamp
             /\ ~wc_obs'.fired
                   => /\ wc' = wc
                      /\ wc_obs'.rejected
                            \in {"off", "cooldown", "probability"}]_vars

\* a second window trigger fires exactly the cooldown after the first
C27_Witness ==
    /\ wc_obs.called /\ wc_obs.fired
    /\ wc_obs.previous # NoTrigger
    /\ wc_obs.timestamp - wc_obs.previous = Cooldown

ExpectedEvents(state, callback) ==
    <<FrameEvent("cached", state.active_window_title, state.timestamp)>>
       \o (IF callback
             THEN <<FrameEvent("callback", state.active_window_title,
                               state.timestamp)>>
             ELSE <<>>)
       \o <<FrameEvent("ack", None, state.timestamp)>>

\* C29: for a desktop_state frame whose data is parsed, the handler
\* replaces the cached state, then calls the registered callback with that
\* state, then sends exactly one desktop_state_ack with that state's
\* timestamp, in this order; when the callback raises, the handler still
\* goes on to the ack and the connection stays registered.
C29_StateFrameOrder ==
    /\ [](\A s \in Sessions :
             LET f == ds_frame[s]
                 expected == ExpectedEvents(f.state, f.callback)
             IN  /\ f.pc = "callback"
                       => s \in handlers /\ f.events = SubSeq(expected, 1, 2)
                 /\ f.pc = "ack"
                       => /\ s \in handlers
                          /\ f.events
                                = SubSeq(expected, 1, Len(expected) - 1)
                 /\ f.pc = "receive" /\ f.events # <<>>
                       => f.events = expected)
    /\ [][\A s \in Sessions :
             ds_frame[s].pc = "callback" /\ ds_frame'[s] # ds_frame[s]
                => /\ ds_frame'[s].pc = "ack"
                   /\ UNCHANGED <<handlers, active_connections>>]_vars

\* the callback has raised for a frame without a timestamp, the ack has
\* been sent with the time of receipt and the handler waits for the next
\* frame
C29_Witness ==
    \E s \in Sessions :
       /\ ds_frame[s].pc = "receive"
       /\ ds_frame[s].raised
       /\ Len(ds_frame[s].events) = 3
       /\ ds_frame[s].events[3] = FrameEvent("ack", None, IsoNow)
       /\ s \in handlers

\* the messages of a reply among those put, in order
MessagesOf(r) == SelectSeq(st_out, LAMBDA m : m.reply = r)

\* the chunk messages of a sequence of chains
RECURSIVE ChunkMessages(_, _)
ChunkMessages(r, chains) ==
    IF chains = <<>> THEN <<>>
    ELSE send_to_gui(r, Head(chains), TRUE) \o ChunkMessages(r, Tail(chains))

\* the plain text of a sequence of chains
RECURSIVE PlainText(_)
PlainText(chains) ==
    IF chains = <<>> THEN <<>>
    ELSE get_plain_text(Head(chains)) \o PlainText(Tail(chains))

OutcomeMsgs(kind) ==
    LET of == SelectSeq(outcomes, LAMBDA o : o.kind = kind)
    IN  [i \in 1..Len(of) |-> of[i].msg]

\* C31: every message put on the bridge is taken by the input loop at most
\* once and none is lost on the way (the messages put are those taken, in
\* order, followed by those still queued), each one taken has exactly one
\* outcome, an event committed to the host or an error message put on the
\* output side: the events committed are the messages with the outcome
\* "event", in the order they were put, the error messages put are those
\* of the messages with the outcome "error", and as long as the adapter is
\* running the loop is still there to take the next one, whatever the
\* outcomes so far.
C31_InputOutcomes ==
    /\ put_in = got_in \o async_input_queue \o input_queue
    /\ got_in = [i \in 1..Len(outcomes) |-> outcomes[i].msg]
    /\ \A i \in 1..Len(outcomes) : outcomes[i].kind \in {"event", "error"}
    /\ committed = OutcomeMsgs("event")
    /\ put_out = [i \in 1..Len(OutcomeMsgs("error")) |->
                      ErrorOutput(OutcomeMsgs("error")[i])]
    /\ adapter.running => adapter.pc = "get"

\* a failed message was followed by a committed one while the adapter runs
C31_Witness ==
    /\ adapter.running
    /\ Len(outcomes) = 2
    /\ outcomes[1].kind = "error"
    /\ outcomes[2].kind = "event"
    /\ outcomes[1].msg # outcomes[2].msg
\* C32: once stop() has cleared the running flag, both forwarding loops
\* leave their loop, so that the gather of start_bridge() returns, whatever
\* the queues hold.
C32_LoopsExit == ~running ~> (in_pc = "exited" /\ out_pc = "exited")

\* both loops have exited after stop() with messages left on both sides
C32_Witness ==
    /\ ~running
    /\ in_pc = "exited"
    /\ out_pc = "exited"
    /\ input_queue # <<>>
    /\ async_output_queue # <<>>
\* C37: once terminate() has cleared the flags and stopped the bridge, the
\* gather of _run completes: the two forwarding loops and the input loop
\* have all left their loop, also when no input message arrives any more.
C37_RunCompletes ==
    (adapter.terminate = "done")
        ~> (in_pc = "exited" /\ out_pc = "exited" /\ adapter.pc = "exited")
\* C33: as long as only tray toggles and the ball's own hide action were
\* used (no screenshot action has hidden a window), the tray's ball-visible
\* flag and the text of its toggle item agree with the visibility of the
\* floating ball.
C33_TrayInSync ==
    ~win.shot_started =>
        /\ win.ball_visible = win.ball_shown
        /\ win.toggle_text = ToggleText(win.ball_shown)

\* C34: a window that hid itself for a screenshot is shown again: every
\* screenshot action of the ball or of the chat window comes to its end,
\* and the step that ends it, with a path, an absent value, a cancelled
\* selection or an exception, leaves the window visible.
C34_ShownAgain ==
    /\ [](win_obs.window = "ball" => win.ball_shown)
    /\ [](win_obs.window = "chat" => win.chat_shown)
    /\ (win.ball_shot # "idle") ~> (win.ball_shot = "idle" /\ win.ball_shown)
    /\ (win.chat_shot # "idle") ~> (win.chat_shot = "idle" /\ win.chat_shown)

\* the ball is visible again after its region capture failed to start,
\* although the tray had been told to hide it in between
C34_Witness ==
    /\ win_obs = Flow("ball", "raised")
    /\ win.ball_shown
    /\ ~win.ball_visible
\* C35: a pending request is resolved only on the session it was sent to:
\* when the future of a request goes from unresolved to resolved, the
\* response stored in it was delivered by the handler of the session the
\* request names.
C35_SameSession ==
    [][\A i \in DOMAIN futures \cap DOMAIN futures' :
         (futures[i].state = "pending" /\ futures'[i].state = "done")
            => futures'[i].result.session_id = pending[i].session_id
    ]_vars

\* C40: between any two steps of the event loop the pending-request table
\* and the futures table hold the same request ids: an id is in both from
\* the step that sends its command, for as long as its call is in flight,
\* and in neither afterwards.
C40_TablesAgree ==
    /\ DOMAIN pending = DOMAIN futures
    /\ \A i \in RequestIds :
          IF InFlight(i)
            THEN i \in DOMAIN pending /\ pending[i].request_id = i
            ELSE i \notin DOMAIN pending

\* the first call has ended with its response while the second one, sent
\* later, has timed out and not resumed yet
C40_Witness ==
    /\ pc[1] = "done"
    /\ returned.call = 1
    /\ returned.value.kind = "response"
    /\ pc[2] = "timedout"
    /\ DOMAIN pending = {2}
    /\ DOMAIN futures = {2}
\* C36: the end of one connection's handler does not deregister another
\* connection: a websocket that is registered under its session_id and
\* whose receive loop is running is still the one registered after the
\* handler of any other websocket has ended.
C36_NewerStays ==
    [][\A c \in ConnIds, d \in ConnIds :
         (/\ c # d
          /\ conn_pc[c] \in {"loop", "closed"}
          /\ conn_pc'[c] = "ended"
          /\ conn_pc[d] = "loop"
          /\ conn_session[d] \in DOMAIN connections
          /\ connections[conn_session[d]] = d)
            => /\ conn_session[d] \in DOMAIN connections'
               /\ connections'[conn_session[d]] = d
    ]_vars
\* C38: under concurrent start() calls at most one listening socket of the
\* server is open, and once every call has returned and the server is
\* running, every call has returned True (calls that failed because
\* another program holds the port set aside).
C38_StartOnce ==
    /\ launch.open <= 1
    /\ (/\ \A k \in StartCalls : launch.pc[k] \notin {"idle", "serving"}
        /\ ~launch.blocked
        /\ is_running)
          => \A k \in StartCalls : launch.pc[k] = "returned True"
\* C39: no idle trigger fires before the idle threshold has passed since
\* the last call of record_activity(): a check that fires has a now that is
\* at least idle_threshold after the time of that call, whenever the call
\* was made.
C39_QuietAfterActivity ==
    (idle_obs.checked /\ idle_obs.fired /\ idle.recorded # NoTrigger)
        => idle_obs.timestamp >= idle.recorded + IdleThreshold
====
